---------------------------- MODULE Spec2Model ----------------------------
(***************************************************************************)
(* A model of dprint-plugin-tailwindcss: the class sorter (sorter.rs), the *)
(* span extractor (extractor.rs), the format-aware parser (parser.rs) and  *)
(* the rewrite driver (lib.rs, TailwindCssPluginHandler::format).          *)
(*                                                                         *)
(* Text is a sequence of bytes.  An ASCII byte is written as the string of *)
(* that one character; a byte >= 0x80 is written as its two hex digits     *)
(* ("C3", "A9", "FF"), and so is the backtick ("60"), which a TLA+ string  *)
(* cannot hold.  Offsets are byte offsets counted from 0, as in the        *)
(* source: the span [start, end) of a text s is SubSeq(s, start+1, end).   *)
(***************************************************************************)
EXTENDS Integers, Sequences, FiniteSets, TLC

VARIABLES
    enabled,              \* request.config.enabled
    tailwind_functions,   \* request.config.tailwind_functions
    tailwind_attributes,  \* request.config.tailwind_attributes
    file_path,            \* request.file_path
    file_bytes,           \* request.file_bytes
    pc,                   \* position inside the running operation
    file_text,            \* format: the decoded text
    matches,              \* format: the spans the parser returned
    result,               \* format: the working buffer
    offset,               \* format: the running i32 offset
    idx,                  \* format: next element of `matches` in the for loop
    outcome,              \* format: what the call returned ("panic": aborted)
    classes,              \* sort_classes: the argument
    sorted,               \* sort_classes(classes)
    resorted,             \* sort_classes(sorted)
    pass,                 \* format: 1, or 2 when the input is the output of pass 1
    left,                 \* cmp: the token of self
    right,                \* cmp: the token of other
    ordering,             \* cmp: the Ordering returned
    token,                \* TailwindClass::parse: the argument
    tailwind_class,       \* TailwindClass::parse: the TailwindClass returned
    served                \* the requests the handler has answered, in order

vars == <<enabled, tailwind_functions, tailwind_attributes, file_path,
          file_bytes, pc, file_text, matches, result, offset, idx, outcome,
          classes, sorted, resorted, pass, left, right, ordering, token,
          tailwind_class, served>>

-----------------------------------------------------------------------------
(* Bounds of the model.                                                    *)

\* number of pieces an argument of sort_classes is assembled from
MaxSortPieces == 5
\* number of pieces a file is assembled from
MaxItems == 3
\* number of pieces a Vue, Svelte or Astro file is assembled from
MaxSectionItems == 4
\* number of variants of a token handed to the comparator
MaxVariants == 2
\* number of pieces a token handed to the token parser is assembled from
MaxTokenPieces == 5
\* number of pieces between the quotes of a literal handed to the extractor
MaxLiteralPieces == 2
\* number of pieces a file is assembled from when requests follow each other
MaxServeItems == 2
\* number of tokens of a text whose order of tokens is varied
MaxOrderTokens == 3

-----------------------------------------------------------------------------
(* Bytes and strings.                                                      *)

SetMin(S) == CHOOSE x \in S : \A y \in S : x <= y
SetMax(S) == CHOOSE x \in S : \A y \in S : x >= y

\* the numeric value of a byte
ByteValue ==
    "\t" :> 9 @@ "\n" :> 10 @@ "\f" :> 12 @@ "\r" :> 13 @@ " " :> 32 @@ "!" :> 33 @@
    "\"" :> 34 @@ "#" :> 35 @@ "$" :> 36 @@ "%" :> 37 @@ "&" :> 38 @@ "'" :> 39 @@
    "(" :> 40 @@ ")" :> 41 @@ "*" :> 42 @@ "+" :> 43 @@ "," :> 44 @@ "-" :> 45 @@
    "." :> 46 @@ "/" :> 47 @@ "0" :> 48 @@ "1" :> 49 @@ "2" :> 50 @@ "3" :> 51 @@
    "4" :> 52 @@ "5" :> 53 @@ "6" :> 54 @@ "7" :> 55 @@ "8" :> 56 @@ "9" :> 57 @@
    ":" :> 58 @@ ";" :> 59 @@ "<" :> 60 @@ "=" :> 61 @@ ">" :> 62 @@ "?" :> 63 @@
    "@" :> 64 @@ "A" :> 65 @@ "B" :> 66 @@ "C" :> 67 @@ "D" :> 68 @@ "E" :> 69 @@
    "F" :> 70 @@ "G" :> 71 @@ "H" :> 72 @@ "I" :> 73 @@ "J" :> 74 @@ "K" :> 75 @@
    "L" :> 76 @@ "M" :> 77 @@ "N" :> 78 @@ "O" :> 79 @@ "P" :> 80 @@ "Q" :> 81 @@
    "R" :> 82 @@ "S" :> 83 @@ "T" :> 84 @@ "U" :> 85 @@ "V" :> 86 @@ "W" :> 87 @@
    "X" :> 88 @@ "Y" :> 89 @@ "Z" :> 90 @@ "[" :> 91 @@ "\\" :> 92 @@ "]" :> 93 @@
    "^" :> 94 @@ "_" :> 95 @@ "60" :> 96 @@ "a" :> 97 @@ "b" :> 98 @@ "c" :> 99 @@
    "d" :> 100 @@ "e" :> 101 @@ "f" :> 102 @@ "g" :> 103 @@ "h" :> 104 @@ "i" :> 105 @@
    "j" :> 106 @@ "k" :> 107 @@ "l" :> 108 @@ "m" :> 109 @@ "n" :> 110 @@ "o" :> 111 @@
    "p" :> 112 @@ "q" :> 113 @@ "r" :> 114 @@ "s" :> 115 @@ "t" :> 116 @@ "u" :> 117 @@
    "v" :> 118 @@ "w" :> 119 @@ "x" :> 120 @@ "y" :> 121 @@ "z" :> 122 @@ "{" :> 123 @@
    "|" :> 124 @@ "}" :> 125 @@ "~" :> 126 @@ "80" :> 128 @@ "A9" :> 169 @@ "BF" :> 191 @@
    "C2" :> 194 @@ "C3" :> 195 @@ "FF" :> 255

\* u8 / char comparison
byte_cmp(a, b) ==
    IF ByteValue[a] < ByteValue[b] THEN "Less"
    ELSE IF ByteValue[a] > ByteValue[b] THEN "Greater" ELSE "Equal"

int_cmp(a, b) == IF a < b THEN "Less" ELSE IF a > b THEN "Greater" ELSE "Equal"

\* bool::cmp: false < true
bool_cmp(a, b) ==
    IF a = b THEN "Equal" ELSE IF b THEN "Less" ELSE "Greater"

\* str::cmp: lexicographic on the bytes
str_cmp(a, b) ==
    LET n == IF Len(a) < Len(b) THEN Len(a) ELSE Len(b)
        D == {i \in 1..n : a[i] # b[i]}
    IN  IF D = {} THEN int_cmp(Len(a), Len(b))
        ELSE byte_cmp(a[SetMin(D)], b[SetMin(D)])

\* char::is_whitespace, on the bytes of the model
is_whitespace(c) == c \in {" ", "\t", "\n", "\r", "\f"}

\* str::trim_start
trim_start(s) ==
    LET N == {i \in 1..Len(s) : ~is_whitespace(s[i])}
    IN  IF N = {} THEN <<>> ELSE SubSeq(s, SetMin(N), Len(s))

\* str::trim
trim(s) ==
    LET N == {i \in 1..Len(s) : ~is_whitespace(s[i])}
    IN  IF N = {} THEN <<>> ELSE SubSeq(s, SetMin(N), SetMax(N))

\* str::split_whitespace: the maximal runs of non-whitespace, in order
RECURSIVE split_whitespace(_)
split_whitespace(s) ==
    LET t == trim_start(s)
        W == {i \in 1..Len(t) : is_whitespace(t[i])}
        e == IF W = {} THEN Len(t) + 1 ELSE SetMin(W)
    IN  IF t = <<>> THEN <<>>
        ELSE <<SubSeq(t, 1, e - 1)>> \o split_whitespace(SubSeq(t, e, Len(t)))

\* str::split(ch): the pieces between the occurrences of ch (maybe empty)
RECURSIVE split(_, _)
split(s, c) ==
    LET P == {i \in 1..Len(s) : s[i] = c}
    IN  IF P = {} THEN <<s>>
        ELSE <<SubSeq(s, 1, SetMin(P) - 1)>>
                 \o split(SubSeq(s, SetMin(P) + 1, Len(s)), c)

\* [&str]::join(sep)
RECURSIVE join(_, _)
join(parts, sep) ==
    IF parts = <<>> THEN <<>>
    ELSE IF Len(parts) = 1 THEN parts[1]
    ELSE parts[1] \o sep \o join(Tail(parts), sep)

\* str::contains(char)
contains(s, c) == \E i \in 1..Len(s) : s[i] = c

\* str::starts_with(char)
starts_with_char(s, c) == Len(s) > 0 /\ s[1] = c

-----------------------------------------------------------------------------
(* sorter.rs                                                               *)

\* a faulty parse: the leading - stays in the base
TailwindClass_parse_sign_kept(class_str) ==
    LET class == trim(class_str)
        important == starts_with_char(class, "!")
        remaining == IF important THEN Tail(class) ELSE class
        parts == split(remaining, ":")
        base_part == parts[Len(parts)]
    IN  [original |-> class, important |-> important,
         variants |-> SubSeq(parts, 1, Len(parts) - 1),
         base |-> base_part, negative |-> starts_with_char(base_part, "-"),
         arbitrary |-> contains(base_part, "[")]

\* TailwindClass::parse
TailwindClass_parse(class_str) ==
    LET class == trim(class_str)
        important == starts_with_char(class, "!")
        remaining == IF important THEN Tail(class) ELSE class
        parts == split(remaining, ":")
        variants == SubSeq(parts, 1, Len(parts) - 1)
        base_part == parts[Len(parts)]
        negative == starts_with_char(base_part, "-")
        base_without_neg == IF negative THEN Tail(base_part) ELSE base_part
        arbitrary == contains(base_without_neg, "[")
    IN  [original |-> class, important |-> important, variants |-> variants,
         base |-> base_without_neg, negative |-> negative,
         arbitrary |-> arbitrary]

\* the match of category_priority: utility prefix -> bucket
CategoryTable ==
    <<"c", "o", "n", "t", "a", "i", "n", "e", "r">> :> 100 @@
    <<"b", "o", "x">> :> 100 @@
    <<"b", "l", "o", "c", "k">> :> 100 @@
    <<"i", "n", "l", "i", "n", "e">> :> 100 @@
    <<"h", "i", "d", "d", "e", "n">> :> 100 @@
    <<"f", "l", "o", "a", "t">> :> 110 @@
    <<"c", "l", "e", "a", "r">> :> 110 @@
    <<"o", "b", "j", "e", "c", "t">> :> 110 @@
    <<"o", "v", "e", "r", "f", "l", "o", "w">> :> 110 @@
    <<"o", "v", "e", "r", "s", "c", "r", "o", "l", "l">> :> 110 @@
    <<"f", "l", "e", "x">> :> 200 @@
    <<"g", "r", "o", "w">> :> 200 @@
    <<"s", "h", "r", "i", "n", "k">> :> 200 @@
    <<"b", "a", "s", "i", "s">> :> 200 @@
    <<"o", "r", "d", "e", "r">> :> 200 @@
    <<"g", "r", "i", "d">> :> 210 @@
    <<"c", "o", "l">> :> 210 @@
    <<"r", "o", "w">> :> 210 @@
    <<"g", "a", "p">> :> 210 @@
    <<"a", "u", "t", "o">> :> 210 @@
    <<"j", "u", "s", "t", "i", "f", "y">> :> 210 @@
    <<"i", "t", "e", "m", "s">> :> 210 @@
    <<"c", "o", "n", "t", "e", "n", "t">> :> 210 @@
    <<"p", "l", "a", "c", "e">> :> 210 @@
    <<"m">> :> 300 @@
    <<"m", "x">> :> 300 @@
    <<"m", "y">> :> 300 @@
    <<"m", "t">> :> 300 @@
    <<"m", "r">> :> 300 @@
    <<"m", "b">> :> 300 @@
    <<"m", "l">> :> 300 @@
    <<"m", "a", "r", "g", "i", "n">> :> 300 @@
    <<"p">> :> 310 @@
    <<"p", "x">> :> 310 @@
    <<"p", "y">> :> 310 @@
    <<"p", "t">> :> 310 @@
    <<"p", "r">> :> 310 @@
    <<"p", "b">> :> 310 @@
    <<"p", "l">> :> 310 @@
    <<"p", "a", "d", "d", "i", "n", "g">> :> 310 @@
    <<"s", "p", "a", "c", "e">> :> 320 @@
    <<"w">> :> 400 @@
    <<"w", "i", "d", "t", "h">> :> 400 @@
    <<"h">> :> 400 @@
    <<"h", "e", "i", "g", "h", "t">> :> 400 @@
    <<"m", "i", "n">> :> 410 @@
    <<"m", "a", "x">> :> 410 @@
    <<"p", "o", "s", "i", "t", "i", "o", "n">> :> 500 @@
    <<"s", "t", "a", "t", "i", "c">> :> 500 @@
    <<"f", "i", "x", "e", "d">> :> 500 @@
    <<"a", "b", "s", "o", "l", "u", "t", "e">> :> 500 @@
    <<"r", "e", "l", "a", "t", "i", "v", "e">> :> 500 @@
    <<"s", "t", "i", "c", "k", "y">> :> 500 @@
    <<"t", "o", "p">> :> 510 @@
    <<"r", "i", "g", "h", "t">> :> 510 @@
    <<"b", "o", "t", "t", "o", "m">> :> 510 @@
    <<"l", "e", "f", "t">> :> 510 @@
    <<"i", "n", "s", "e", "t">> :> 510 @@
    <<"z">> :> 520 @@
    <<"f", "o", "n", "t">> :> 600 @@
    <<"t", "e", "x", "t">> :> 600 @@
    <<"t", "r", "a", "c", "k", "i", "n", "g">> :> 600 @@
    <<"l", "e", "a", "d", "i", "n", "g">> :> 600 @@
    <<"l", "i", "s", "t">> :> 600 @@
    <<"a", "l", "i", "g", "n">> :> 600 @@
    <<"w", "h", "i", "t", "e", "s", "p", "a", "c", "e">> :> 610 @@
    <<"b", "r", "e", "a", "k">> :> 610 @@
    <<"t", "r", "u", "n", "c", "a", "t", "e">> :> 610 @@
    <<"b", "g">> :> 700 @@
    <<"f", "r", "o", "m">> :> 700 @@
    <<"v", "i", "a">> :> 700 @@
    <<"t", "o">> :> 700 @@
    <<"b", "o", "r", "d", "e", "r">> :> 800 @@
    <<"d", "i", "v", "i", "d", "e">> :> 800 @@
    <<"o", "u", "t", "l", "i", "n", "e">> :> 800 @@
    <<"r", "i", "n", "g">> :> 800 @@
    <<"r", "o", "u", "n", "d", "e", "d">> :> 810 @@
    <<"s", "h", "a", "d", "o", "w">> :> 900 @@
    <<"o", "p", "a", "c", "i", "t", "y">> :> 900 @@
    <<"m", "i", "x">> :> 900 @@
    <<"b", "l", "u", "r">> :> 900 @@
    <<"f", "i", "l", "t", "e", "r">> :> 1000 @@
    <<"b", "a", "c", "k", "d", "r", "o", "p">> :> 1000 @@
    <<"b", "r", "i", "g", "h", "t", "n", "e", "s", "s">> :> 1000 @@
    <<"c", "o", "n", "t", "r", "a", "s", "t">> :> 1000 @@
    <<"g", "r", "a", "y", "s", "c", "a", "l", "e">> :> 1000 @@
    <<"c", "a", "p", "t", "i", "o", "n">> :> 1100 @@
    <<"t", "a", "b", "l", "e">> :> 1100 @@
    <<"t", "r", "a", "n", "s", "i", "t", "i", "o", "n">> :> 1200 @@
    <<"d", "u", "r", "a", "t", "i", "o", "n">> :> 1200 @@
    <<"e", "a", "s", "e">> :> 1200 @@
    <<"d", "e", "l", "a", "y">> :> 1200 @@
    <<"a", "n", "i", "m", "a", "t", "e">> :> 1200 @@
    <<"t", "r", "a", "n", "s", "f", "o", "r", "m">> :> 1300 @@
    <<"o", "r", "i", "g", "i", "n">> :> 1300 @@
    <<"s", "c", "a", "l", "e">> :> 1300 @@
    <<"r", "o", "t", "a", "t", "e">> :> 1300 @@
    <<"t", "r", "a", "n", "s", "l", "a", "t", "e">> :> 1300 @@
    <<"s", "k", "e", "w">> :> 1300 @@
    <<"c", "u", "r", "s", "o", "r">> :> 1400 @@
    <<"s", "e", "l", "e", "c", "t">> :> 1400 @@
    <<"r", "e", "s", "i", "z", "e">> :> 1400 @@
    <<"p", "o", "i", "n", "t", "e", "r">> :> 1400 @@
    <<"a", "p", "p", "e", "a", "r", "a", "n", "c", "e">> :> 1400 @@
    <<"f", "i", "l", "l">> :> 1500 @@
    <<"s", "t", "r", "o", "k", "e">> :> 1500 @@
    <<"s", "r">> :> 1600 @@
    <<"s", "c", "r", "e", "e", "n">> :> 1600

\* a faulty category_priority: every utility is in the sentinel bucket
category_priority_flat(self) == 9999

\* TailwindClass::category_priority
category_priority(self) ==
    LET prefix == split(self.base, "-")[1]
    IN  IF prefix \in DOMAIN CategoryTable THEN CategoryTable[prefix]
        ELSE 9999

\* the match of variant_priority: variant -> priority
VariantTable ==
    <<"s", "m">> :> 100 @@
    <<"m", "d">> :> 110 @@
    <<"l", "g">> :> 120 @@
    <<"x", "l">> :> 130 @@
    <<"2", "x", "l">> :> 140 @@
    <<"d", "a", "r", "k">> :> 200 @@
    <<"h", "o", "v", "e", "r">> :> 300 @@
    <<"f", "o", "c", "u", "s">> :> 310 @@
    <<"a", "c", "t", "i", "v", "e">> :> 320 @@
    <<"v", "i", "s", "i", "t", "e", "d">> :> 330 @@
    <<"d", "i", "s", "a", "b", "l", "e", "d">> :> 340 @@
    <<"e", "n", "a", "b", "l", "e", "d">> :> 350 @@
    <<"g", "r", "o", "u", "p">> :> 400 @@
    <<"p", "e", "e", "r">> :> 410 @@
    <<"f", "i", "r", "s", "t">> :> 500 @@
    <<"l", "a", "s", "t">> :> 510 @@
    <<"o", "d", "d">> :> 520 @@
    <<"e", "v", "e", "n">> :> 530

\* TailwindClass::variant_priority
variant_priority(variant) ==
    IF variant \in DOMAIN VariantTable THEN VariantTable[variant] ELSE 9999

\* the zip loop of compare_variants, from pair i on
RECURSIVE compare_variants_from(_, _, _)
compare_variants_from(v, w, i) ==
    IF i > Len(v) \/ i > Len(w) THEN "Equal"
    ELSE LET p == int_cmp(variant_priority(v[i]), variant_priority(w[i]))
             a == str_cmp(v[i], w[i])
         IN  IF p # "Equal" THEN p
             ELSE IF a # "Equal" THEN a
             ELSE compare_variants_from(v, w, i + 1)

\* a faulty compare_variants: the variants are compared by priority alone,
\* without the alphabetical comparison of variants of the same priority
compare_variants_by_priority(self, other) ==
    LET n == int_cmp(Len(self.variants), Len(other.variants))
        differ == {i \in 1..Len(self.variants) :
                      i <= Len(other.variants)
                          /\ variant_priority(self.variants[i])
                                 # variant_priority(other.variants[i])}
    IN  IF n # "Equal" THEN n
        ELSE IF differ = {} THEN "Equal"
        ELSE int_cmp(variant_priority(self.variants[SetMin(differ)]),
                     variant_priority(other.variants[SetMin(differ)]))

\* a faulty compare_variants: the variants are compared by name alone
compare_variants_by_name(self, other) ==
    LET n == int_cmp(Len(self.variants), Len(other.variants))
        differ == {i \in 1..Len(self.variants) :
                      i <= Len(other.variants)
                          /\ self.variants[i] # other.variants[i]}
    IN  IF n # "Equal" THEN n
        ELSE IF differ = {} THEN "Equal"
        ELSE str_cmp(self.variants[SetMin(differ)],
                     other.variants[SetMin(differ)])

\* TailwindClass::compare_variants
compare_variants(self, other) ==
    LET n == int_cmp(Len(self.variants), Len(other.variants))
    IN  IF n = "Equal"
        THEN compare_variants_from(self.variants, other.variants, 1)
        ELSE n

\* a faulty cmp, not an order: everything is Less than everything
cmp_always_less(self, other) == "Less"

\* a faulty cmp: the important flag is not a key
cmp_ignoring_important(self, other) ==
    LET k2 == int_cmp(category_priority(self), category_priority(other))
        k3 == int_cmp(Len(self.variants), Len(other.variants))
        k4 == compare_variants(self, other)
        k5 == bool_cmp(self.negative, other.negative)
        k6 == bool_cmp(self.arbitrary, other.arbitrary)
    IN  IF k2 # "Equal" THEN k2
        ELSE IF k3 # "Equal" THEN k3
        ELSE IF k4 # "Equal" THEN k4
        ELSE IF k5 # "Equal" THEN k5
        ELSE IF k6 # "Equal" THEN k6
        ELSE str_cmp(self.base, other.base)

\* <TailwindClass as Ord>::cmp
cmp(self, other) ==
    LET k1 == bool_cmp(self.important, other.important)
        k2 == int_cmp(category_priority(self), category_priority(other))
        k3 == int_cmp(Len(self.variants), Len(other.variants))
        k4 == IF self.variants # <<>> \/ other.variants # <<>>
              THEN compare_variants(self, other) ELSE "Equal"
        k5 == bool_cmp(self.negative, other.negative)
        k6 == bool_cmp(self.arbitrary, other.arbitrary)
    IN  IF k1 # "Equal" THEN k1
        ELSE IF k2 # "Equal" THEN k2
        ELSE IF k3 # "Equal" THEN k3
        ELSE IF k4 # "Equal" THEN k4
        ELSE IF k5 # "Equal" THEN k5
        ELSE IF k6 # "Equal" THEN k6
        ELSE str_cmp(self.base, other.base)

\* a faulty insertion, not stable: x goes before the first element that
\* is not less than x, so before every element that compares Equal to it
sort_insert_before_equal(done, x) ==
    LET G == {i \in 1..Len(done) : cmp(done[i], x) # "Less"}
    IN  IF G = {} THEN Append(done, x)
        ELSE SubSeq(done, 1, SetMin(G) - 1) \o <<x>>
                 \o SubSeq(done, SetMin(G), Len(done))

\* a faulty insertion: a class that is already there is dropped
sort_insert_unique(done, x) ==
    IF \E i \in 1..Len(done) : done[i].original = x.original THEN done
    ELSE Append(done, x)

\* one insertion of the stable sort: x goes before the first element that
\* is greater than x, so after every element that compares Equal to it
sort_insert(done, x) ==
    LET G == {i \in 1..Len(done) : cmp(x, done[i]) = "Less"}
    IN  IF G = {} THEN Append(done, x)
        ELSE SubSeq(done, 1, SetMin(G) - 1) \o <<x>>
                 \o SubSeq(done, SetMin(G), Len(done))

\* Vec<TailwindClass>::sort (stable), elements taken left to right
RECURSIVE sort_from(_, _, _)
sort_from(v, done, i) ==
    IF i > Len(v) THEN done ELSE sort_from(v, sort_insert(done, v[i]), i + 1)

sort(v) == sort_from(v, <<>>, 1)

\* a faulty sort_classes: the text is split at single spaces
sort_classes_split_at_spaces(classes_str) ==
    LET trimmed == trim(classes_str)
        pieces == split(trimmed, " ")
        parsed_classes == [i \in 1..Len(pieces) |-> TailwindClass_parse(pieces[i])]
        ordered == sort(parsed_classes)
    IN  IF trimmed = <<>> THEN <<>>
        ELSE join([i \in 1..Len(ordered) |-> ordered[i].original], <<" ">>)

\* sort_classes
sort_classes(classes_str) ==
    LET trimmed == trim(classes_str)
        pieces == split_whitespace(trimmed)
        parsed_classes == [i \in 1..Len(pieces) |-> TailwindClass_parse(pieces[i])]
        ordered == sort(parsed_classes)
    IN  IF trimmed = <<>> THEN <<>>
        ELSE join([i \in 1..Len(ordered) |-> ordered[i].original], <<" ">>)

-----------------------------------------------------------------------------
(* Slices and searches (0-based byte offsets).                             *)

\* &s[a..b]
slice(s, a, b) == SubSeq(s, a + 1, b)

\* pat occurs in s at offset i
occurs_at(s, pat, i) ==
    /\ i + Len(pat) <= Len(s)
    /\ SubSeq(s, i + 1, i + Len(pat)) = pat

\* str::find(pat): the offset of the first occurrence, or -1 (None)
find(s, pat) ==
    LET P == {i \in 0..Len(s) : occurs_at(s, pat, i)}
    IN  IF P = {} THEN -1 ELSE SetMin(P)

\* str::find(|c| c in set): offset of the first byte of s, at or after
\* `from`, that lies in `set`, or -1
find_byte_in(s, set, from) ==
    LET P == {i \in from..(Len(s) - 1) : s[i + 1] \in set}
    IN  IF P = {} THEN -1 ELSE SetMin(P)

\* the offset at which a greedy \s* that starts at offset j stops
skip_whitespace(s, j) ==
    LET P == {k \in j..(Len(s) - 1) : ~is_whitespace(s[k + 1])}
    IN  IF P = {} THEN Len(s) ELSE SetMin(P)

\* concatenation of a sequence of sequences
RECURSIVE flatten(_)
flatten(ss) == IF ss = <<>> THEN <<>> ELSE Head(ss) \o flatten(Tail(ss))

-----------------------------------------------------------------------------
(* The regular expressions of extractor.rs.  A match is                    *)
(* [ok, cap_start, cap_end, match_end]: capture group 1 is                 *)
(* [cap_start, cap_end) and the whole match ends at match_end.             *)

NoMatch == [ok |-> FALSE, cap_start |-> 0, cap_end |-> 0, match_end |-> 0]

\* NAME=["']([^"']*)["']    (extractor.rs line 26)
attr_pattern(name) == [kind |-> "attr", name |-> name]
\* NAME\s*=\s*\{([^}]+)\}   (extractor.rs line 43)
jsx_pattern(name) == [kind |-> "jsx", name |-> name]
\* NAME\s*\(([^)]+)\)       (extractor.rs line 65)
func_pattern(name) == [kind |-> "func", name |-> name]
\* ["'`]([^"'`]*)["'`]      (extractor.rs line 89)
STRING_REGEX == [kind |-> "string", name |-> <<>>]

\* the bytes that may open the group of a pattern, and those that end it
opening_bytes(kind) ==
    CASE kind = "attr" -> {"\"", "'"}
      [] kind = "jsx" -> {"{"}
      [] kind = "func" -> {"("}
      [] kind = "string" -> {"\"", "'", "60"}

closing_bytes(kind) ==
    CASE kind = "attr" -> {"\"", "'"}
      [] kind = "jsx" -> {"}"}
      [] kind = "func" -> {")"}
      [] kind = "string" -> {"\"", "'", "60"}

\* the least length of the group: * for the quoted forms, + for the others
min_group_len(kind) == IF kind \in {"jsx", "func"} THEN 1 ELSE 0

\* the offset after `\s*=\s*` read from offset n, or -1 without a '='
after_equals(s, eq) ==
    IF occurs_at(s, <<"=">>, eq) THEN skip_whitespace(s, eq + 1) ELSE -1

\* the offset at which the opening byte must stand, the name having ended
\* at offset n; -1 when the text between does not match
opening_offset(kind, s, n) ==
    CASE kind = "attr" -> IF occurs_at(s, <<"=">>, n) THEN n + 1 ELSE -1
      [] kind = "jsx" -> after_equals(s, skip_whitespace(s, n))
      [] kind = "func" -> skip_whitespace(s, n)
      [] kind = "string" -> n

\* the match whose opening byte is at offset o and whose group ends at
\* the closing byte at offset e (the first one after o; -1: there is none)
delimited_match(s, o, e, opens, min_len) ==
    IF o >= 0 /\ o < Len(s) /\ s[o + 1] \in opens /\ e # -1
       /\ e - (o + 1) >= min_len
    THEN [ok |-> TRUE, cap_start |-> o + 1, cap_end |-> e, match_end |-> e + 1]
    ELSE NoMatch

\* as delimited_match, the closing byte searched for
delimited_at(s, o, kind) ==
    delimited_match(s, o, find_byte_in(s, closing_bytes(kind), o + 1),
                    opening_bytes(kind), min_group_len(kind))

\* the match of re that begins at offset i of s, if there is one
regex_match_at(re, s, i) ==
    IF occurs_at(s, re.name, i)
    THEN delimited_at(s, opening_offset(re.kind, s, i + Len(re.name)), re.kind)
    ELSE NoMatch

\* Regex::captures_iter: the leftmost match at or after `from`, then the
\* leftmost one at or after its end, and so on
RECURSIVE captures_from(_, _, _)
RECURSIVE captures_after(_, _, _)
captures_from(re, s, from) ==
    IF from > Len(s) THEN <<>>
    ELSE captures_after(re, s, [at |-> from, m |-> regex_match_at(re, s, from)])

\* the attempt at offset try.at gave try.m
captures_after(re, s, try) ==
    IF try.m.ok
    THEN <<try.m>> \o captures_from(re, s, try.m.match_end)
    ELSE captures_from(re, s, try.at + 1)

captures_iter(re, s) == captures_from(re, s, 0)

-----------------------------------------------------------------------------
(* extractor.rs                                                            *)

\* ClassExtractor::new
ClassExtractor_new(function_names, attribute_names) ==
    [function_names |-> function_names, attribute_names |-> attribute_names]

ClassMatch(start, end, content) ==
    [start |-> start, end |-> end, content |-> content]

\* the ClassMatch of each capture, at base_offset
matches_of(text, caps, base_offset) ==
    [i \in 1..Len(caps) |->
        ClassMatch(base_offset + caps[i].cap_start,
                   base_offset + caps[i].cap_end,
                   slice(text, caps[i].cap_start, caps[i].cap_end))]

\* ClassExtractor::extract_strings_from_args
extract_strings_from_args(args, base_offset) ==
    LET Keep(c) == /\ ~contains(slice(args, c.cap_start, c.cap_end), "$")
                   /\ c.cap_start # c.cap_end
    IN  matches_of(args, SelectSeq(captures_iter(STRING_REGEX, args), Keep),
                   base_offset)

\* ClassExtractor::extract_from_jsx_expression
extract_from_jsx_expression(expr, base_offset) ==
    extract_strings_from_args(expr, base_offset)

\* extractor.rs 26-40: the quoted form of one attribute name
quoted_attribute_matches(content, attr_name) ==
    LET Keep(c) == trim(slice(content, c.cap_start, c.cap_end)) # <<>>
    IN  matches_of(content,
                   SelectSeq(captures_iter(attr_pattern(attr_name), content), Keep),
                   0)

\* the string literals of each captured expression or argument list
literals_of(content, caps) ==
    flatten([i \in 1..Len(caps) |->
                extract_strings_from_args(
                    slice(content, caps[i].cap_start, caps[i].cap_end),
                    caps[i].cap_start)])

\* extractor.rs 43-53: the braced form of one attribute name
jsx_attribute_matches(content, attr_name) ==
    literals_of(content, captures_iter(jsx_pattern(attr_name), content))

\* the body of the loop of extract_from_attributes for one attribute name
attribute_matches(content, attr_name) ==
    quoted_attribute_matches(content, attr_name)
        \o jsx_attribute_matches(content, attr_name)

\* ClassExtractor::extract_from_attributes
extract_from_attributes(self, content) ==
    flatten([n \in 1..Len(self.attribute_names) |->
                attribute_matches(content, self.attribute_names[n])])

\* the body of the loop of extract_from_functions for one function name
function_matches(content, func_name) ==
    literals_of(content, captures_iter(func_pattern(func_name), content))

\* ClassExtractor::extract_from_functions
extract_from_functions(self, content) ==
    flatten([n \in 1..Len(self.function_names) |->
                function_matches(content, self.function_names[n])])

\* matches.sort_by_key(|m| m.start): stable, by the start of the span
RECURSIVE sort_by_key_start(_, _, _)
sort_by_key_start(v, done, i) ==
    IF i > Len(v) THEN done
    ELSE LET G == {k \in 1..Len(done) : v[i].start < done[k].start}
             placed == IF G = {} THEN Append(done, v[i])
                       ELSE SubSeq(done, 1, SetMin(G) - 1) \o <<v[i]>>
                                \o SubSeq(done, SetMin(G), Len(done))
         IN  sort_by_key_start(v, placed, i + 1)

\* matches.dedup_by(|a, b| a.start == b.start && a.end == b.end): an
\* element is dropped when it has the span of the last element kept
RECURSIVE dedup_by_span(_, _, _)
dedup_by_span(v, kept, i) ==
    IF i > Len(v) THEN kept
    ELSE IF /\ kept # <<>>
            /\ v[i].start = kept[Len(kept)].start
            /\ v[i].end = kept[Len(kept)].end
         THEN dedup_by_span(v, kept, i + 1)
         ELSE dedup_by_span(v, Append(kept, v[i]), i + 1)

\* ClassExtractor::extract_all
extract_all(self, content) ==
    dedup_by_span(
        sort_by_key_start(extract_from_attributes(self, content)
                              \o extract_from_functions(self, content),
                          <<>>, 1),
        <<>>, 1)

-----------------------------------------------------------------------------
(* parser.rs                                                               *)

\* char::to_lowercase on the letters the model's paths use
UpperToLower ==
    "A" :> "a" @@ "B" :> "b" @@ "C" :> "c" @@ "D" :> "d" @@ "E" :> "e" @@ "F" :> "f" @@ "G" :> "g" @@
    "H" :> "h" @@ "I" :> "i" @@ "J" :> "j" @@ "K" :> "k" @@ "L" :> "l" @@ "M" :> "m" @@ "N" :> "n" @@
    "O" :> "o" @@ "P" :> "p" @@ "Q" :> "q" @@ "R" :> "r" @@ "S" :> "s" @@ "T" :> "t" @@ "U" :> "u" @@
    "V" :> "v" @@ "W" :> "w" @@ "X" :> "x" @@ "Y" :> "y" @@ "Z" :> "z"

\* str::to_lowercase
to_lowercase(s) ==
    [i \in 1..Len(s) |->
        IF s[i] \in DOMAIN UpperToLower THEN UpperToLower[s[i]] ELSE s[i]]

\* path.split('.').last() / .next_back(): the text after the last '.',
\* the whole path when it has no '.'
last_dot_segment(path) ==
    LET parts == split(path, ".") IN parts[Len(parts)]

\* FileFormat::from_path ("None": no format)
FileFormat_from_path(path) ==
    LET extension == to_lowercase(last_dot_segment(path))
    IN  CASE extension \in {<<"h", "t", "m", "l">>, <<"h", "t", "m">>} -> "Html"
          [] extension = <<"j", "s", "x">> -> "Jsx"
          [] extension = <<"t", "s", "x">> -> "Tsx"
          [] extension = <<"v", "u", "e">> -> "Vue"
          [] extension = <<"s", "v", "e", "l", "t", "e">> -> "Svelte"
          [] extension = <<"a", "s", "t", "r", "o">> -> "Astro"
          [] OTHER -> "None"

\* a parser result: the spans, or ok = FALSE when the call panicked
Returned(ms) == [ok |-> TRUE, matches |-> ms]
Panicked == [ok |-> FALSE, matches |-> <<>>]

\* a faulty shift_matches: the offset of the section is not added back
shift_matches_not(ms, by) == ms

\* m.start += by; m.end += by, for every m
shift_matches(ms, by) ==
    [i \in 1..Len(ms) |->
        ClassMatch(ms[i].start + by, ms[i].end + by, ms[i].content)]

\* FormatParser::parse_html
parse_html(extractor, content) ==
    Returned(extract_from_attributes(extractor, content)
                 \o extract_from_functions(extractor, content))

\* FormatParser::parse_jsx
parse_jsx(extractor, content) ==
    Returned(extract_from_attributes(extractor, content)
                 \o extract_from_functions(extractor, content))

\* a faulty extract_vue_template: the template section is never found
extract_vue_template_none(content) ==
    [kind |-> "None", start |-> 0, content |-> <<>>]

\* extract_vue_template: kind is "Some", "None" or, when the slice
\* content[template_content_start..template_end] is inverted, "panic"
extract_vue_template(content) ==
    LET template_start_tag == find(content, <<"<", "t", "e", "m", "p", "l", "a", "t", "e">>)
        gt == find(slice(content, template_start_tag, Len(content)), <<">">>)
        template_content_start == gt + template_start_tag + 1
        template_end == find(content, <<"<", "/", "t", "e", "m", "p", "l", "a", "t", "e", ">">>)
        none == [kind |-> "None", start |-> 0, content |-> <<>>]
    IN  IF template_start_tag = -1 THEN none
        ELSE IF gt = -1 THEN none
        ELSE IF template_end = -1 THEN none
        ELSE IF template_content_start > template_end
        THEN [kind |-> "panic", start |-> 0, content |-> <<>>]
        ELSE [kind |-> "Some", start |-> template_content_start,
              content |-> slice(content, template_content_start, template_end)]

\* parser.rs 99-125: the branches of parse_vue on the template section
parse_vue_section(extractor, content, template_section) ==
    CASE template_section.kind = "panic" -> Panicked
      [] template_section.kind = "Some" ->
            Returned(
                shift_matches(
                    extract_from_attributes(extractor, template_section.content),
                    template_section.start)
                \o shift_matches(
                    extract_from_functions(extractor, template_section.content),
                    template_section.start))
      [] template_section.kind = "None" ->
            Returned(extract_from_attributes(extractor, content)
                         \o extract_from_functions(extractor, content))

\* FormatParser::parse_vue
parse_vue(extractor, content) ==
    parse_vue_section(extractor, content, extract_vue_template(content))

\* one `while let` loop of extract_svelte_markup_sections: the ranges
\* <open ... close>, searched from search_pos on
RECURSIVE excluded_from(_, _, _, _)
excluded_from(content, open, close, search_pos) ==
    LET tag_start == find(slice(content, search_pos, Len(content)), open)
        abs_start == search_pos + tag_start
        tag_end == find(slice(content, abs_start, Len(content)), close)
        abs_end == abs_start + tag_end + Len(close)
    IN  IF tag_start = -1 THEN <<>>
        ELSE IF tag_end = -1 THEN <<>>
        ELSE <<<<abs_start, abs_end>>>>
                 \o excluded_from(content, open, close, abs_end)

\* excluded_ranges.sort_by_key(|r| r.0): stable, by the range start
RECURSIVE sort_by_start(_, _, _)
sort_by_start(v, done, i) ==
    IF i > Len(v) THEN done
    ELSE LET G == {k \in 1..Len(done) : v[i][1] < done[k][1]}
             placed == IF G = {} THEN Append(done, v[i])
                       ELSE SubSeq(done, 1, SetMin(G) - 1) \o <<v[i]>>
                                \o SubSeq(done, SetMin(G), Len(done))
         IN  sort_by_start(v, placed, i + 1)

ContentSection(start, content) == [start |-> start, content |-> content]

\* the `for (start, end) in excluded_ranges` loop, from range i on:
\* the sections pushed so far and current_pos
RECURSIVE sections_between(_, _, _, _, _)
sections_between(content, ranges, i, sections, current_pos) ==
    IF i > Len(ranges)
    THEN [sections |-> sections, current_pos |-> current_pos]
    ELSE LET start == ranges[i][1]
             end == ranges[i][2]
             pushed == IF current_pos < start
                       THEN Append(sections,
                                ContentSection(current_pos,
                                               slice(content, current_pos, start)))
                       ELSE sections
         IN  sections_between(content, ranges, i + 1, pushed, end)

\* parser.rs 266-282: the section after the last excluded range, and the
\* whole content when no section was pushed
sections_after(content, walked) ==
    LET sections == IF walked.current_pos < Len(content)
                    THEN Append(walked.sections,
                             ContentSection(walked.current_pos,
                                 slice(content, walked.current_pos, Len(content))))
                    ELSE walked.sections
    IN  IF sections = <<>> THEN <<ContentSection(0, content)>> ELSE sections

\* extract_svelte_markup_sections
extract_svelte_markup_sections(content) ==
    LET scripts == excluded_from(content, <<"<", "s", "c", "r", "i", "p", "t">>,
                        <<"<", "/", "s", "c", "r", "i", "p", "t", ">">>, 0)
        styles == excluded_from(content, <<"<", "s", "t", "y", "l", "e">>,
                        <<"<", "/", "s", "t", "y", "l", "e", ">">>, 0)
        excluded_ranges == sort_by_start(scripts \o styles, <<>>, 1)
    IN  sections_after(content,
                       sections_between(content, excluded_ranges, 1, <<>>, 0))

\* parser.rs 143-154: the spans of every section, at the section's start
section_matches(extractor, sections) ==
    flatten([i \in 1..Len(sections) |->
                shift_matches(
                    extract_from_attributes(extractor, sections[i].content),
                    sections[i].start)])

\* FormatParser::parse_svelte
parse_svelte(extractor, content) ==
    Returned(section_matches(extractor, extract_svelte_markup_sections(content)))

\* a faulty find_astro_frontmatter_end: the frontmatter is never found
find_astro_frontmatter_end_none(content) == -1

\* find_astro_frontmatter_end (-1: None)
find_astro_frontmatter_end(content) ==
    LET fence == <<"-", "-", "-">>
        start == find(content, fence) + 3
        remaining == slice(content, start, Len(content))
        end == find(remaining, fence) + start + 3
        newline == find(slice(content, end, Len(content)), <<"\n">>)
    IN  IF ~occurs_at(trim_start(content), fence, 0) THEN -1
        ELSE IF find(content, fence) = -1 THEN -1
        ELSE IF find(remaining, fence) = -1 THEN -1
        ELSE IF newline # -1 THEN end + newline + 1
        ELSE end

\* parser.rs 175-192: the spans of the markup region content[markup_start..]
markup_matches(extractor, content, markup_start) ==
    shift_matches(
        extract_from_attributes(extractor, slice(content, markup_start, Len(content))),
        markup_start)
    \o shift_matches(
        extract_from_functions(extractor, slice(content, markup_start, Len(content))),
        markup_start)

\* the markup_start of a frontmatter end (-1: None)
markup_start_of(frontmatter_end) ==
    IF frontmatter_end # -1 THEN frontmatter_end ELSE 0

\* FormatParser::parse_astro
parse_astro(extractor, content) ==
    Returned(markup_matches(extractor, content,
                 markup_start_of(find_astro_frontmatter_end(content))))

\* FormatParser::parse
FormatParser_parse(extractor, content, format) ==
    CASE format = "Html" -> parse_html(extractor, content)
      [] format \in {"Jsx", "Tsx"} -> parse_jsx(extractor, content)
      [] format = "Vue" -> parse_vue(extractor, content)
      [] format = "Svelte" -> parse_svelte(extractor, content)
      [] format = "Astro" -> parse_astro(extractor, content)

-----------------------------------------------------------------------------
(* integration.rs                                                          *)

\* PluginCompatibility::should_format
PluginCompatibility_should_format(file_path_str) ==
    LET extension == to_lowercase(last_dot_segment(file_path_str))
    IN  extension \notin {<<"j", "s", "o", "n">>, <<"j", "s", "o", "n", "c">>,
                          <<"y", "a", "m", "l">>, <<"y", "m", "l">>}

\* a faulty should_defer: toml is not deferred
should_defer_without_toml(file_path_str) ==
    to_lowercase(last_dot_segment(file_path_str))
        \in {<<"j", "s", "o", "n">>, <<"j", "s", "o", "n", "c">>,
             <<"y", "a", "m", "l">>, <<"y", "m", "l">>}

\* PluginCompatibility::should_defer
PluginCompatibility_should_defer(file_path_str) ==
    LET extension == to_lowercase(last_dot_segment(file_path_str))
    IN  extension \in {<<"j", "s", "o", "n">>, <<"j", "s", "o", "n", "c">>,
                       <<"t", "o", "m", "l">>,
                       <<"y", "a", "m", "l">>, <<"y", "m", "l">>}

-----------------------------------------------------------------------------
(* lib.rs: the helpers of TailwindCssPluginHandler::format                 *)

\* a continuation byte 10xxxxxx
is_continuation(b) == ByteValue[b] >= 128 /\ ByteValue[b] <= 191

\* core::str::from_utf8 accepts the bytes from index i on
RECURSIVE utf8_valid_from(_, _)
utf8_valid_from(bytes, i) ==
    IF i > Len(bytes) THEN TRUE
    ELSE LET v == ByteValue[bytes[i]]
             Cont(k) == i + k <= Len(bytes) /\ is_continuation(bytes[i + k])
             second == IF i + 1 <= Len(bytes) THEN ByteValue[bytes[i + 1]] ELSE 0
         IN  CASE v < 128 -> utf8_valid_from(bytes, i + 1)
               [] v >= 194 /\ v <= 223 ->
                    Cont(1) /\ utf8_valid_from(bytes, i + 2)
               [] v >= 224 /\ v <= 239 ->
                    /\ Cont(1) /\ Cont(2)
                    /\ (v = 224 => second >= 160)
                    /\ (v = 237 => second <= 159)
                    /\ utf8_valid_from(bytes, i + 3)
               [] v >= 240 /\ v <= 244 ->
                    /\ Cont(1) /\ Cont(2) /\ Cont(3)
                    /\ (v = 240 => second >= 144)
                    /\ (v = 244 => second <= 143)
                    /\ utf8_valid_from(bytes, i + 4)
               [] OTHER -> FALSE

\* String::from_utf8(bytes).is_ok()
from_utf8_ok(bytes) == utf8_valid_from(bytes, 1)

\* str::is_char_boundary
is_char_boundary(s, i) ==
    \/ i = 0
    \/ i = Len(s)
    \/ i < Len(s) /\ ~is_continuation(s[i + 1])

\* `n as i32` of a usize n: the model's lengths lie below 2^31, where the
\* cast keeps the value
as_i32(n) == n

\* A usize is 64 bits wide. Its values go beyond TLC's integers, which end
\* at 2^31 - 1, so a usize is written as its four 16-bit limbs, the most
\* significant first: <<a, b, c, d>> is a * 2^48 + b * 2^32 + c * 2^16 + d.
LimbBase == 65536

\* `x as usize` of an i32 x: x itself when x >= 0; a negative x is sign
\* extended and becomes 2^64 + x (-1 becomes 2^64 - 1, -2^31 becomes
\* 2^64 - 2^31). For x < 0 the low 32 bits are 2^32 + x = 2^31 + y with
\* y = x + 2^31.
as_usize(x) ==
    IF x >= 0 THEN <<0, 0, x \div LimbBase, x % LimbBase>>
    ELSE LET y == (x + 2147483647) + 1
         IN  <<LimbBase - 1, LimbBase - 1,
               (LimbBase \div 2) + (y \div LimbBase), y % LimbBase>>

\* the usize u is below 2^31
usize_below_2_31(u) == u[1] = 0 /\ u[2] = 0 /\ u[3] < LimbBase \div 2

\* the integer that a usize below 2^31 is
usize_to_int(u) == u[3] * LimbBase + u[4]

\* u <= v for two usize
usize_le(u, v) ==
    LET differ == {i \in 1..4 : u[i] # v[i]}
    IN  differ = {} \/ u[SetMin(differ)] < v[SetMin(differ)]

\* String::replace_range(start..end, _), start and end usize, panics
\* unless start <= end <= len and both lie on char boundaries
replace_range_ok(s, start, end) ==
    /\ usize_le(start, end)
    /\ usize_below_2_31(end)
    /\ usize_to_int(end) <= Len(s)
    /\ is_char_boundary(s, usize_to_int(start))
    /\ is_char_boundary(s, usize_to_int(end))

\* the text after String::replace_range(start..end, with), start and end
\* usize within s
replace_range(s, start, end, with) ==
    SubSeq(s, 1, usize_to_int(start)) \o with
        \o SubSeq(s, usize_to_int(end) + 1, Len(s))

\* the `matches` of format (lib.rs lines 83-101)
extract_matches(path, text, function_names, attribute_names) ==
    LET format == FileFormat_from_path(path)
        extractor == ClassExtractor_new(function_names, attribute_names)
    IN  IF format # "None"
        THEN FormatParser_parse(extractor, text, format)
        ELSE Returned(extract_from_attributes(extractor, text)
                          \o extract_from_functions(extractor, text))

-----------------------------------------------------------------------------
(* Bounded input sets.                                                     *)

\* every concatenation of at most n elements of P
RECURSIVE Concats(_, _)
Concats(P, n) ==
    IF n = 0 THEN {<<>>}
    ELSE LET prev == Concats(P, n - 1)
         IN  prev \cup {s \o p : s \in prev, p \in P}

-----------------------------------------------------------------------------
(* The requests of the model.                                              *)

\* Configuration::default(): tailwind_functions, tailwind_attributes
DefaultFunctions == <<<<"c", "l", "a", "s", "s", "n", "a", "m", "e", "s">>, <<"c", "l", "s", "x">>, <<"c", "t", "l">>, <<"c", "v", "a">>, <<"t", "w">>>>
DefaultAttributes == <<<<"c", "l", "a", "s", "s">>, <<"c", "l", "a", "s", "s", "N", "a", "m", "e">>>>

\* the paths of the requests
FormatPaths ==
    { <<"a", ".", "h", "t", "m", "l">>,
      <<"a", ".", "j", "s", "x">>,
      <<"a", ".", "t", "s", "x">>,
      <<"a", ".", "v", "u", "e">>,
      <<"a", ".", "s", "v", "e", "l", "t", "e">>,
      <<"a", ".", "a", "s", "t", "r", "o">>,
      <<"a", ".", "t", "s">> }
DeferredPaths ==
    { <<"a", ".", "j", "s", "o", "n">>,
      <<"a", ".", "j", "s", "o", "n", "c">>,
      <<"a", ".", "t", "o", "m", "l">>,
      <<"a", ".", "y", "a", "m", "l">>,
      <<"a", ".", "y", "m", "l">>,
      <<"a", ".", "J", "S", "O", "N">>,
      <<"y", "m", "l">>,
      <<"a", ".", "h", "t", "m", "l", ".", "Y", "m", "l">>,
      <<"a", ".", "y", "m", "l", ".", "H", "T", "M">> }
Paths == FormatPaths \cup DeferredPaths

\* the pieces a file is assembled from: class attributes and calls whose
\* sorted form is shorter, a permutation, or the same; a stray quote; a
\* byte that is not UTF-8 ...
GenericItems ==
    { <<"c", "l", "a", "s", "s", "=", "\"", " ", " ", "p", " ", " ", "\"">>,
      <<"c", "l", "a", "s", "s", "=", "'", "C3", "A9", " ", "m", "'">>,
      <<"c", "l", "a", "s", "s", "=", "\"", "p", "\"">>,
      <<"t", "w", "(", "\"", "m", " ", "\"", ")">>,
      <<"c", "l", "a", "s", "s", "N", "a", "m", "e", "=", "{", "t", "w", "(", "\"", "z", " ", "p", "\"", ")", "}">>,
      <<"\"">>,
      <<"FF">> }

\* ... and the tags and fences the format of the path gives a meaning to
StructuralItems(path) ==
    LET format == FileFormat_from_path(path)
    IN  CASE format = "Vue" -> { <<"<", "t", "e", "m", "p", "l", "a", "t", "e", ">">>, <<"<", "/", "t", "e", "m", "p", "l", "a", "t", "e", ">">> }
          [] format = "Svelte" -> { <<"<", "s", "c", "r", "i", "p", "t", ">">>,
                                  <<"<", "/", "s", "c", "r", "i", "p", "t", ">">>,
                                  <<"<", "s", "t", "y", "l", "e", ">">>,
                                  <<"<", "/", "s", "t", "y", "l", "e", ">">> }
          [] format = "Astro" -> { <<"-", "-", "-">>, <<"\n">> }
          [] OTHER -> {}

FileItems(path) == GenericItems \cup StructuralItems(path)

-----------------------------------------------------------------------------
(* The variables of the sorter, the comparator and the token parser, which *)
(* are also run on their own.                                              *)

sorter_vars == <<classes, sorted, resorted>>
comparator_vars == <<left, right, ordering>>
token_vars == <<token, tailwind_class>>
unit_vars == <<sorter_vars, comparator_vars, token_vars>>

\* no call of the sorter, of the comparator or of the token parser
SorterIdle == classes = <<>> /\ sorted = <<>> /\ resorted = <<>>
ComparatorIdle == left = <<>> /\ right = <<>> /\ ordering = "none"
TokenIdle == token = <<>> /\ tailwind_class = <<>>
UnitsIdle == SorterIdle /\ ComparatorIdle /\ TokenIdle

-----------------------------------------------------------------------------
(* TailwindCssPluginHandler::format, one request.                          *)

Init ==
    /\ enabled \in BOOLEAN
    /\ tailwind_functions = DefaultFunctions
    /\ tailwind_attributes = DefaultAttributes
    /\ file_path \in Paths
    /\ file_bytes \in Concats(FileItems(file_path), MaxItems)
    /\ pc = "enabled"
    /\ file_text = <<>>
    /\ matches = <<>>
    /\ result = <<>>
    /\ offset = 0
    /\ idx = 0
    /\ outcome = "running"
    /\ pass = 1
    /\ served = <<>>
    /\ UnitsIdle

\* the request, and which pass over the file it is
request_vars == <<enabled, tailwind_functions, tailwind_attributes, file_path,
                  file_bytes, pass, served>>

\* return `value` from format
Finish(value) ==
    /\ outcome' = value
    /\ pc' = "done"

\* lib.rs 63-65: if !request.config.enabled { return Ok(None) }
CheckEnabled ==
    /\ pc = "enabled"
    /\ IF ~enabled THEN Finish("Ok(None)")
       ELSE pc' = "gate" /\ UNCHANGED outcome
    /\ UNCHANGED <<request_vars, unit_vars, file_text, matches, result,
                   offset, idx>>

\* lib.rs 68-76: the should_format and should_defer checks
CheckCompatibility ==
    /\ pc = "gate"
    /\ IF ~PluginCompatibility_should_format(file_path) THEN Finish("Ok(None)")
       ELSE IF PluginCompatibility_should_defer(file_path) THEN Finish("Ok(None)")
       ELSE pc' = "decode" /\ UNCHANGED outcome
    /\ UNCHANGED <<request_vars, unit_vars, file_text, matches, result,
                   offset, idx>>

\* lib.rs 79-80: String::from_utf8(request.file_bytes.to_vec())?
DecodeUtf8 ==
    /\ pc = "decode"
    /\ IF from_utf8_ok(file_bytes)
       THEN file_text' = file_bytes /\ pc' = "parse" /\ UNCHANGED outcome
       ELSE Finish("Err") /\ UNCHANGED file_text
    /\ UNCHANGED <<request_vars, unit_vars, matches, result, offset, idx>>

\* a faulty format: offset is not set to 0 before the loop, as if it were
\* a field of the handler
AfterExtractKeepingOffset(parsed) ==
    /\ matches' = parsed.matches
    /\ IF ~parsed.ok
       THEN Finish("panic in parse") /\ UNCHANGED <<result, offset, idx>>
       ELSE IF parsed.matches = <<>>
       THEN Finish("Ok(None)") /\ UNCHANGED <<result, offset, idx>>
       ELSE /\ result' = file_text
            /\ idx' = 1
            /\ pc' = "loop"
            /\ UNCHANGED <<outcome, offset>>

\* lib.rs 103-110: the empty check and the start of the loop
AfterExtract(parsed) ==
    /\ matches' = parsed.matches
    /\ IF ~parsed.ok
       THEN Finish("panic in parse") /\ UNCHANGED <<result, offset, idx>>
       ELSE IF parsed.matches = <<>>
       THEN Finish("Ok(None)") /\ UNCHANGED <<result, offset, idx>>
       ELSE /\ result' = file_text
            /\ offset' = 0
            /\ idx' = 1
            /\ pc' = "loop"
            /\ UNCHANGED outcome

\* lib.rs 83-110: the spans, the empty check, the start of the loop
ExtractMatches ==
    /\ pc = "parse"
    /\ AfterExtract(extract_matches(file_path, file_text,
                                    tailwind_functions, tailwind_attributes))
    /\ UNCHANGED <<request_vars, unit_vars, file_text>>

\* lib.rs 116-124: the replacement of class_match by sorted_content
Replace(class_match, sorted_content, start, end) ==
    IF sorted_content # class_match.content
    THEN IF replace_range_ok(result, start, end)
         THEN /\ result' = replace_range(result, start, end, sorted_content)
              /\ offset' = offset + as_i32(Len(sorted_content))
                                  - as_i32(Len(class_match.content))
              /\ idx' = idx + 1
              /\ UNCHANGED <<pc, outcome>>
         ELSE /\ Finish("panic in replace_range")
              /\ UNCHANGED <<result, offset, idx>>
    ELSE /\ idx' = idx + 1
         /\ UNCHANGED <<result, offset, pc, outcome>>

\* lib.rs 112-125: one iteration of `for class_match in matches`
ReplaceNext ==
    /\ pc = "loop"
    /\ idx <= Len(matches)
    /\ Replace(matches[idx], sort_classes(matches[idx].content),
               as_usize(as_i32(matches[idx].start) + offset),
               as_usize(as_i32(matches[idx].end) + offset))
    /\ UNCHANGED <<request_vars, unit_vars, file_text, matches>>

\* a faulty return: Some(result) without the comparison with file_text
ReturnAlwaysSome ==
    /\ pc = "loop"
    /\ idx > Len(matches)
    /\ Finish("Ok(Some)")
    /\ UNCHANGED <<request_vars, unit_vars, file_text, matches, result,
                   offset, idx>>

\* lib.rs 128-132: Some(result) if it differs from file_text, else None
Return ==
    /\ pc = "loop"
    /\ idx > Len(matches)
    /\ IF result # file_text THEN Finish("Ok(Some)") ELSE Finish("Ok(None)")
    /\ UNCHANGED <<request_vars, unit_vars, file_text, matches, result,
                   offset, idx>>

Next ==
    \/ CheckEnabled
    \/ CheckCompatibility
    \/ DecodeUtf8
    \/ ExtractMatches
    \/ ReplaceNext
    \/ Return

Spec == Init /\ [][Next]_vars

-----------------------------------------------------------------------------
(* The host formats the output of format again, with the same path and     *)
(* configuration.                                                          *)

\* format(result) after format(file_bytes) = Ok(Some(result))
FormatAgain ==
    /\ pc = "done"
    /\ outcome = "Ok(Some)"
    /\ pass = 1
    /\ pass' = 2
    /\ file_bytes' = result
    /\ pc' = "enabled"
    /\ outcome' = "running"
    /\ file_text' = <<>>
    /\ matches' = <<>>
    /\ result' = <<>>
    /\ offset' = 0
    /\ idx' = 0
    /\ UNCHANGED <<enabled, tailwind_functions, tailwind_attributes, file_path,
                   served, unit_vars>>

NextAgain ==
    \/ CheckEnabled
    \/ CheckCompatibility
    \/ DecodeUtf8
    \/ ExtractMatches
    \/ ReplaceNext
    \/ Return
    \/ FormatAgain

SpecAgain == Init /\ [][NextAgain]_vars

-----------------------------------------------------------------------------
(* One handler answering three requests in a row: any request, any other    *)
(* request, then the first request again.                                   *)

ServeItems ==
    { <<"c", "l", "a", "s", "s", "=", "\"", " ", " ", "p", " ", " ", "\"">>,
      <<"t", "w", "(", "\"", "m", " ", "\"", ")">>,
      <<"c", "l", "a", "s", "s", "N", "a", "m", "e", "=", "{", "t", "w", "(", "\"", "z", " ", "p", "\"", ")", "}">>,
      <<"FF">> }

ServeInputs == Concats(ServeItems, MaxServeItems)

InitServe ==
    /\ enabled = TRUE
    /\ tailwind_functions = DefaultFunctions
    /\ tailwind_attributes = DefaultAttributes
    /\ file_path = <<"a", ".", "j", "s", "x">>
    /\ file_bytes \in ServeInputs
    /\ pc = "enabled"
    /\ file_text = <<>>
    /\ matches = <<>>
    /\ result = <<>>
    /\ offset = 0
    /\ idx = 0
    /\ outcome = "running"
    /\ pass = 1
    /\ served = <<>>
    /\ UnitsIdle

\* what format returned: the outcome and, for Ok(Some), the bytes
Answer == [outcome |-> outcome,
           bytes |-> IF outcome = "Ok(Some)" THEN result ELSE <<>>]

\* format has returned and is called again on the same handler, with
\* another request.  The handler has no field; file_text, matches, result
\* and offset are locals of format, which the new call assigns before it
\* reads them (lib.rs 79, 90, 105, 106)
NextRequest ==
    /\ pc = "done"
    /\ outcome \in {"Ok(None)", "Ok(Some)", "Err"}
    /\ pass < 3
    /\ served' = Append(served, [file_bytes |-> file_bytes, answer |-> Answer])
    /\ pass' = pass + 1
    /\ file_bytes' \in IF pass = 1 THEN ServeInputs ELSE {served[1].file_bytes}
    /\ pc' = "enabled"
    /\ outcome' = "running"
    /\ UNCHANGED <<enabled, tailwind_functions, tailwind_attributes, file_path,
                   file_text, matches, result, offset, idx, unit_vars>>

NextServe ==
    \/ CheckEnabled
    \/ CheckCompatibility
    \/ DecodeUtf8
    \/ ExtractMatches
    \/ ReplaceNext
    \/ Return
    \/ NextRequest

SpecServe == InitServe /\ [][NextServe]_vars

-----------------------------------------------------------------------------
(* Requests for the formats with sections: Vue, Svelte and Astro files     *)
(* assembled from the tags and fences of the format and from class         *)
(* attributes and calls.                                                   *)

VuePieces ==
    { <<"<", "t", "e", "m", "p", "l", "a", "t", "e", ">">>,
      <<"<", "t", "e", "m", "p", "l", "a", "t", "e">>,
      <<">">>,
      <<"<", "/", "t", "e", "m", "p", "l", "a", "t", "e", ">">>,
      <<"c", "l", "a", "s", "s", "=", "\"", "p", "\"">>,
      <<"t", "w", "(", "\"", "p", "\"", ")">> }
SveltePieces ==
    { <<"<", "s", "c", "r", "i", "p", "t", ">">>,
      <<"<", "/", "s", "c", "r", "i", "p", "t", ">">>,
      <<"<", "s", "t", "y", "l", "e", ">">>,
      <<"<", "/", "s", "t", "y", "l", "e", ">">>,
      <<"c", "l", "a", "s", "s", "=", "\"", "p", "\"">> }
AstroPieces ==
    { <<"-", "-", "-">>,
      <<"\n">>,
      <<" ">>,
      <<"c", "l", "a", "s", "s", "=", "\"", "p", "\"">>,
      <<"t", "w", "(", "\"", "p", "\"", ")">> }

SectionPaths ==
    { <<"a", ".", "v", "u", "e">>,
      <<"a", ".", "s", "v", "e", "l", "t", "e">>,
      <<"a", ".", "a", "s", "t", "r", "o">> }

SectionPieces(path) ==
    LET format == FileFormat_from_path(path)
    IN  CASE format = "Vue" -> VuePieces
          [] format = "Svelte" -> SveltePieces
          [] format = "Astro" -> AstroPieces

InitSections ==
    /\ enabled = TRUE
    /\ tailwind_functions = DefaultFunctions
    /\ tailwind_attributes = DefaultAttributes
    /\ file_path \in SectionPaths
    /\ file_bytes \in Concats(SectionPieces(file_path), MaxSectionItems)
    /\ pc = "enabled"
    /\ file_text = <<>>
    /\ matches = <<>>
    /\ result = <<>>
    /\ offset = 0
    /\ idx = 0
    /\ outcome = "running"
    /\ pass = 1
    /\ served = <<>>
    /\ UnitsIdle

SpecSections == InitSections /\ [][Next]_vars

-----------------------------------------------------------------------------
\* the pieces an argument of sort_classes is assembled from
SortPieces ==
    { <<" ">>, <<"\t">>, <<"p">>, <<"m">>, <<"!">>, <<"-">>,
      <<"[">>, <<"s", "m", ":">>, <<"C3", "A9">> }

-----------------------------------------------------------------------------
(* The sorter on its own: sort_classes applied to a text, then to its own  *)
(* output.                                                                 *)

driver_vars == <<enabled, tailwind_functions, tailwind_attributes, file_path,
                 file_bytes, file_text, matches, result, offset, idx, outcome,
                 pass, served>>

\* no request
DriverIdle ==
    /\ enabled = TRUE
    /\ tailwind_functions = <<>>
    /\ tailwind_attributes = <<>>
    /\ file_path = <<>>
    /\ file_bytes = <<>>
    /\ file_text = <<>>
    /\ matches = <<>>
    /\ result = <<>>
    /\ offset = 0
    /\ idx = 0
    /\ outcome = "running"
    /\ pass = 1
    /\ served = <<>>

InitSort ==
    /\ classes \in Concats(SortPieces, MaxSortPieces)
    /\ pc = "sort"
    /\ sorted = <<>>
    /\ resorted = <<>>
    /\ DriverIdle
    /\ ComparatorIdle
    /\ TokenIdle


\* sorted = sort_classes(classes)
SortClasses ==
    /\ pc = "sort"
    /\ sorted' = sort_classes(classes)
    /\ pc' = "resort"
    /\ UNCHANGED <<classes, resorted, driver_vars, comparator_vars, token_vars>>

\* resorted = sort_classes(sorted)
SortAgain ==
    /\ pc = "resort"
    /\ resorted' = sort_classes(sorted)
    /\ pc' = "sorted"
    /\ UNCHANGED <<classes, sorted, driver_vars, comparator_vars, token_vars>>

NextSort == SortClasses \/ SortAgain

SpecSort == InitSort /\ [][NextSort]_vars

-----------------------------------------------------------------------------
(* The sorter on texts of a few whole tokens, in every order and with       *)
(* repetitions.                                                             *)

OrderTokens ==
    { <<"p">>,
      <<"m">>,
      <<"!", "p">>,
      <<"-", "p">>,
      <<"s", "m", ":", "p">>,
      <<"a", "a", ":", "p">>,
      <<"z", "z", ":", "p">>,
      <<"s", "m", ":", "a", "a", ":", "p">>,
      <<":", "p">>,
      <<"!", "s", "m", ":", "p">>,
      <<"p", "-", "[">>,
      <<"a">> }

\* every sequence of at most n tokens
RECURSIVE TokenLists(_)
TokenLists(n) ==
    IF n = 0 THEN {<<>>}
    ELSE LET prev == TokenLists(n - 1)
         IN  prev \cup {Append(ts, tok) : ts \in prev, tok \in OrderTokens}

InitOrder ==
    /\ classes \in {join(ts, <<" ">>) : ts \in TokenLists(MaxOrderTokens)}
    /\ pc = "sort"
    /\ sorted = <<>>
    /\ resorted = <<>>
    /\ DriverIdle
    /\ ComparatorIdle
    /\ TokenIdle

SpecOrder == InitOrder /\ [][NextSort]_vars

-----------------------------------------------------------------------------
(* The comparator on its own: two tokens are parsed and compared, and the   *)
(* text made of the two is sorted.                                          *)

\* variant names: one of the variant table, two that are not in it
VariantNames == { <<"s", "m">>, <<"a", "a">>, <<"z", "z">> }

\* bases: two utilities of the category table, a prefix that is not in it,
\* an arbitrary value and a value that sorts after it as a string
BaseNames == { <<"m">>, <<"p">>, <<"a">>, <<"p", "-", "[">>, <<"p", "-", "x">> }

\* every sequence of at most n variant names
RECURSIVE VariantLists(_)
VariantLists(n) ==
    IF n = 0 THEN {<<>>}
    ELSE LET prev == VariantLists(n - 1)
         IN  prev \cup {Append(vs, v) : vs \in prev, v \in VariantNames}

\* the text of a token: optional !, the variants each followed by a colon,
\* optional -, the base
token_text(bang, variant_list, sign, base) ==
    bang \o flatten([i \in 1..Len(variant_list) |-> variant_list[i] \o <<":">>])
         \o sign \o base

Tokens ==
    { token_text(bang, variant_list, sign, base) :
        bang \in {<<>>, <<"!">>}, variant_list \in VariantLists(MaxVariants),
        sign \in {<<>>, <<"-">>}, base \in BaseNames }

InitCmp ==
    /\ left \in Tokens
    /\ right \in Tokens
    /\ ordering = "none"
    /\ classes = left \o <<" ">> \o right
    /\ sorted = <<>>
    /\ resorted = <<>>
    /\ pc = "cmp"
    /\ DriverIdle
    /\ TokenIdle

\* ordering = parse(left).cmp(&parse(right)); sorted = sort_classes(classes)
Compare ==
    /\ pc = "cmp"
    /\ ordering' = cmp(TailwindClass_parse(left), TailwindClass_parse(right))
    /\ sorted' = sort_classes(classes)
    /\ pc' = "compared"
    /\ UNCHANGED <<left, right, classes, resorted, driver_vars, token_vars>>

NextCmp == Compare

SpecCmp == InitCmp /\ [][NextCmp]_vars

-----------------------------------------------------------------------------
(* The token parser on its own: TailwindClass::parse applied to a token     *)
(* without whitespace.                                                      *)

TokenPieces ==
    { <<"!">>, <<"-">>, <<"p">>, <<":">>, <<"[">>, <<"]">>, <<"(">>, <<")">> }

InitToken ==
    /\ token \in Concats(TokenPieces, MaxTokenPieces) \ {<<>>}
    /\ tailwind_class = <<>>
    /\ pc = "parse"
    /\ DriverIdle
    /\ SorterIdle
    /\ ComparatorIdle

\* tailwind_class = TailwindClass::parse(token)
ParseToken ==
    /\ pc = "parse"
    /\ tailwind_class' = TailwindClass_parse(token)
    /\ pc' = "parsed"
    /\ UNCHANGED <<token, driver_vars, sorter_vars, comparator_vars>>

NextToken == ParseToken

SpecToken == InitToken /\ [][NextToken]_vars

-----------------------------------------------------------------------------
(* The extractor on its own: one of extract_from_attributes,                *)
(* extract_from_functions and extract_all applied to a text that holds one  *)
(* quoted literal in an attribute, a call or a braced attribute.            *)

\* the bytes that stand before and after the body of a literal
QuoteBytes == { <<"\"">>, <<"'">>, <<"60">> }

\* the pieces of the body of a literal
LiteralPieces == { <<"p">>, <<" ">>, <<"$">>, <<"60">> }

Literals ==
    { open \o body \o close :
        open \in QuoteBytes, close \in QuoteBytes,
        body \in Concats(LiteralPieces, MaxLiteralPieces) }

\* the texts around a literal: [before, after]
Contexts ==
    { <<<<"c", "l", "a", "s", "s", "=">>, <<>>>>,
      <<<<"C", "l", "a", "s", "s", "=">>, <<>>>>,
      <<<<"d", "a", "t", "a", "-", "c", "l", "a", "s", "s", "=">>, <<>>>>,
      <<<<"t", "w", "(">>, <<")">>>>,
      <<<<"c", "n", "(">>, <<")">>>>,
      <<<<"t", "w", "(">>, <<"'", "m", "'", ")">>>>,
      <<<<"c", "l", "a", "s", "s", "=", "{">>, <<"}">>>>,
      <<<<"c", "l", "a", "s", "s", "N", "a", "m", "e", "=", "{", "t", "w", "(">>, <<")", "}">>>>,
      <<<<"c", "l", "a", "s", "s", "=", "{", "t", "w", "(", "c", "l", "a", "s", "s", "N", "a", "m", "e", "=">>, <<")", "}">>>> }

ExtractorTexts ==
    { context[1] \o literal \o context[2] :
        context \in Contexts, literal \in Literals }

InitExtract ==
    /\ tailwind_functions \in {<<>>, <<<<"t", "w">>>>}
    /\ tailwind_attributes \in {<<>>, DefaultAttributes}
    /\ file_text \in ExtractorTexts
    /\ matches = <<>>
    /\ pc = "extract"
    /\ enabled = TRUE
    /\ file_path = <<>>
    /\ file_bytes = <<>>
    /\ result = <<>>
    /\ offset = 0
    /\ idx = 0
    /\ outcome = "running"
    /\ pass = 1
    /\ served = <<>>
    /\ UnitsIdle

extractor_idle_vars == <<enabled, tailwind_functions, tailwind_attributes,
                         file_path, file_bytes, file_text, result, offset, idx,
                         outcome, pass, unit_vars, served>>

\* matches = extractor.extract_from_attributes(file_text)
ExtractFromAttributes ==
    /\ pc = "extract"
    /\ matches' = extract_from_attributes(
                      ClassExtractor_new(tailwind_functions, tailwind_attributes),
                      file_text)
    /\ pc' = "attributes"
    /\ UNCHANGED extractor_idle_vars

\* matches = extractor.extract_from_functions(file_text)
ExtractFromFunctions ==
    /\ pc = "extract"
    /\ matches' = extract_from_functions(
                      ClassExtractor_new(tailwind_functions, tailwind_attributes),
                      file_text)
    /\ pc' = "functions"
    /\ UNCHANGED extractor_idle_vars

\* matches = extractor.extract_all(file_text)
ExtractAll ==
    /\ pc = "extract"
    /\ matches' = extract_all(
                      ClassExtractor_new(tailwind_functions, tailwind_attributes),
                      file_text)
    /\ pc' = "all"
    /\ UNCHANGED extractor_idle_vars

NextExtract == ExtractFromAttributes \/ ExtractFromFunctions \/ ExtractAll

SpecExtract == InitExtract /\ [][NextExtract]_vars

-----------------------------------------------------------------------------
(* Properties of the sorter (SpecSort).                                    *)

\* the number of times x occurs in the sequence s
occurrences(s, x) == Cardinality({i \in 1..Len(s) : s[i] = x})

\* C3: sort_classes is idempotent: sorting the output of sort_classes
\* again gives the same text, for every input text.
SortIdempotent == pc = "sorted" => resorted = sorted

\* three classes that the sort has reordered, sorted a second time
SortIdempotentWitness ==
    /\ pc = "sorted"
    /\ Len(split_whitespace(classes)) = 3
    /\ sorted # join(split_whitespace(classes), <<" ">>)
    /\ resorted = sorted

\* C4: sort_classes preserves the multiset of tokens: the pieces of the
\* output are the whitespace-separated pieces of the trimmed input, each
\* with the same spelling and the same number of occurrences.
SortPreservesTokens ==
    pc # "sort" =>
        LET before == split_whitespace(trim(classes))
            after == split_whitespace(sorted)
        IN  /\ Len(after) = Len(before)
            /\ \A i \in 1..Len(before) :
                   occurrences(after, before[i]) = occurrences(before, before[i])

\* a class that occurs twice in the input and twice in the output, which
\* the sort has moved
SortPreservesTokensWitness ==
    /\ pc # "sort"
    /\ \E i \in 1..Len(split_whitespace(classes)) :
           occurrences(split_whitespace(sorted), split_whitespace(classes)[i]) = 2
    /\ sorted # join(split_whitespace(classes), <<" ">>)

-----------------------------------------------------------------------------
(* Properties of format (Spec).                                            *)

\* the path ends in an extension of the deferral set
DeferralSet ==
    { <<"j", "s", "o", "n">>, <<"j", "s", "o", "n", "c">>,
      <<"t", "o", "m", "l">>, <<"y", "a", "m", "l">>, <<"y", "m", "l">> }
Deferred == to_lowercase(last_dot_segment(file_path)) \in DeferralSet

\* the request gets as far as the scan for spans
Scanned == enabled /\ ~Deferred /\ from_utf8_ok(file_bytes)

\* byte k of file_text lies inside a span
covered(k) ==
    \E i \in 1..Len(matches) : matches[i].start <= k /\ k < matches[i].end

\* span i is not a repetition of an earlier entry of matches
first_entry(i) ==
    \A j \in 1..(i - 1) :
        matches[j].start # matches[i].start \/ matches[j].end # matches[i].end

\* the length change that sorting span i causes
length_change(i) ==
    Len(sort_classes(matches[i].content)) - (matches[i].end - matches[i].start)

\* the sum of the length changes of the spans, from entry i on, that end
\* at or before byte k
RECURSIVE shift_from(_, _)
shift_from(k, i) ==
    IF i > Len(matches) THEN 0
    ELSE (IF matches[i].end <= k /\ first_entry(i) THEN length_change(i) ELSE 0)
         + shift_from(k, i + 1)

\* byte k of file_text is at its shifted position p of result
kept_at(k, p) == p \in 1..Len(result) /\ result[p] = file_text[k + 1]

\* span i of file_text is replaced, at its shifted position p, by text
replaced_at(p, text) ==
    /\ p >= 0
    /\ p + Len(text) <= Len(result)
    /\ slice(result, p, p + Len(text)) = text

\* C1: byte fidelity: when format returns a new buffer, every byte of the
\* input outside all spans is in the output, unchanged, at its position
\* shifted by the length changes of the spans before it, and the output
\* has no other bytes outside the spans.
ByteFidelity ==
    (pc = "done" /\ outcome = "Ok(Some)") =>
        /\ Len(result) = Len(file_text) + shift_from(Len(file_text), 1)
        /\ \A k \in 0..(Len(file_text) - 1) :
               covered(k) \/ kept_at(k, k + shift_from(k, 1) + 1)

\* C2: span replacement: in the buffer that format returns, the region of
\* every span holds sort_classes(content) of the span.
SpanReplacement ==
    (pc = "done" /\ outcome = "Ok(Some)") =>
        \A i \in 1..Len(matches) :
            replaced_at(matches[i].start + shift_from(matches[i].start, 1),
                        sort_classes(matches[i].content))

\* C5: position exactness: for every span the parser or the extractor
\* returns, start < end and file_text[start..end] is the content of the
\* span, the offsets being absolute offsets into the file.
PositionExact ==
    \A i \in 1..Len(matches) :
        /\ matches[i].start < matches[i].end
        /\ matches[i].end <= Len(file_text)
        /\ slice(file_text, matches[i].start, matches[i].end) = matches[i].content

\* spans of a Vue file found in a template section that starts after
\* byte 0 of the file
PositionExactWitness ==
    /\ FileFormat_from_path(file_path) = "Vue"
    /\ extract_vue_template(file_text).kind = "Some"
    /\ extract_vue_template(file_text).start > 0
    /\ matches # <<>>

\* C6: disjointness: no two spans that the parser returns for a file
\* cover a common byte; in particular no span is returned twice.
SpansDisjoint ==
    \A i, j \in 1..Len(matches) :
        i < j => \/ matches[i].end <= matches[j].start
                 \/ matches[j].end <= matches[i].start

\* C7: the extractor, the parser and the sorter never fail: the scan of a
\* decoded text for spans always returns.
ParserNeverFails == outcome # "panic in parse"

\* C8: the only terminal error is the UTF-8 decode: a request that is
\* enabled and not deferred ends with Err when the bytes are not UTF-8;
\* when they are, it ends with Ok(None) or Ok(Some), whatever spans the
\* scan has returned.
OnlyDecodeFails ==
    (pc = "done" /\ enabled /\ ~Deferred /\ outcome # "panic in parse") =>
        IF from_utf8_ok(file_bytes) THEN outcome \in {"Ok(None)", "Ok(Some)"}
        ELSE outcome = "Err"

\* C9: short-circuit order: a request that is disabled, or whose path has
\* an extension of the deferral set, returns no change without its bytes
\* being decoded or scanned; every other request goes on to the decode.
ShortCircuitOrder ==
    /\ (~enabled \/ Deferred) =>
           /\ pc \in {"enabled", "gate", "done"}
           /\ pc = "done" => outcome = "Ok(None)"
           /\ file_text = <<>> /\ matches = <<>> /\ result = <<>>
    /\ (enabled /\ ~Deferred /\ pc = "done") =>
           IF from_utf8_ok(file_bytes) THEN file_text = file_bytes
           ELSE outcome = "Err"

\* a deferred request whose bytes are not UTF-8 has returned no change
ShortCircuitOrderWitness ==
    /\ pc = "done"
    /\ enabled
    /\ Deferred
    /\ ~from_utf8_ok(file_bytes)
    /\ outcome = "Ok(None)"

\* C11: the driver is idempotent: when format has returned a new buffer,
\* formatting that buffer again with the same path and configuration
\* returns no change.
DriverIdempotent == (pass = 2 /\ pc = "done") => outcome = "Ok(None)"

\* every span of the request is sorted already
all_sorted ==
    \A i \in 1..Len(matches) : sort_classes(matches[i].content) = matches[i].content

\* C10: format returns no change when the scan gives no span and when
\* every span is sorted already; a buffer that format returns differs
\* from the input.
NoChangeConditions ==
    pc = "done" =>
        /\ (Scanned /\ outcome # "panic in parse" /\ matches = <<>>)
               => outcome = "Ok(None)"
        /\ (matches # <<>> /\ all_sorted) => outcome = "Ok(None)"
        /\ outcome = "Ok(Some)" => result # file_bytes

\* a file with two spans, each sorted already, has returned no change
NoChangeConditionsWitness ==
    /\ pc = "done"
    /\ Len(matches) >= 2
    /\ all_sorted
    /\ outcome = "Ok(None)"

-----------------------------------------------------------------------------
(* Properties of the formats with sections (SpecSections).                 *)

\* the scan of file_text has returned its spans
spans_returned == pc \in {"loop", "done"} /\ outcome # "panic in parse"

\* the spans of the attribute and function extraction on the whole text
whole_buffer_matches ==
    extract_from_attributes(
        ClassExtractor_new(tailwind_functions, tailwind_attributes), file_text)
    \o extract_from_functions(
        ClassExtractor_new(tailwind_functions, tailwind_attributes), file_text)

\* the first <template, the first '>' at or after it, the first </template>
template_open == find(file_text, <<"<", "t", "e", "m", "p", "l", "a", "t", "e">>)
template_open_end == find_byte_in(file_text, {">"}, template_open)
template_close == find(file_text, <<"<", "/", "t", "e", "m", "p", "l", "a", "t", "e", ">">>)
has_template ==
    template_open # -1 /\ template_open_end # -1 /\ template_close # -1

\* every span lies in [from, to)
spans_within(from, to) ==
    \A i \in 1..Len(matches) : from <= matches[i].start /\ matches[i].end <= to

\* C12: Vue: when the text has a <template opening tag and a </template>
\* closing tag, every span returned lies inside the template interior,
\* after the '>' of the first opening tag and before the closing tag; when
\* no template section is found, the spans are those of the attribute and
\* function extraction on the whole text.
VueTemplateOnly ==
    (FileFormat_from_path(file_path) = "Vue" /\ spans_returned) =>
        IF has_template
        THEN spans_within(template_open_end + 1, template_close)
        ELSE matches = whole_buffer_matches

\* a Vue file with a span inside the template and a class string outside
\* of it, which is not returned
VueTemplateOnlyWitness ==
    /\ FileFormat_from_path(file_path) = "Vue"
    /\ spans_returned
    /\ has_template
    /\ matches # <<>>
    /\ Len(whole_buffer_matches) > Len(matches)

\* the <script ... </script> and <style ... </style> ranges of file_text
script_ranges ==
    excluded_from(file_text, <<"<", "s", "c", "r", "i", "p", "t">>, <<"<", "/", "s", "c", "r", "i", "p", "t", ">">>, 0)
style_ranges ==
    excluded_from(file_text, <<"<", "s", "t", "y", "l", "e">>, <<"<", "/", "s", "t", "y", "l", "e", ">">>, 0)

\* no span has a byte in a range of the sequence ranges
spans_outside(ranges) ==
    \A i \in 1..Len(matches) : \A k \in 1..Len(ranges) :
        matches[i].end <= ranges[k][1] \/ ranges[k][2] <= matches[i].start

\* C13: Svelte: no span returned lies inside a <script ... </script> or
\* <style ... </style> range of the text; the whole text is one markup
\* section only when there is no such range.
SvelteMarkupOnly ==
    (FileFormat_from_path(file_path) = "Svelte" /\ spans_returned) =>
        spans_outside(script_ranges \o style_ranges)

\* the offset of the first byte of file_text that is not whitespace
first_text == Len(file_text) - Len(trim_start(file_text))

\* the offset after the second --- fence, the first one standing at
\* first_text (-1: there is no second fence)
second_fence_end ==
    LET after_first == first_text + 3
        second == find(slice(file_text, after_first, Len(file_text)), <<"-", "-", "-">>)
    IN  IF second = -1 THEN -1 ELSE after_first + second + 3

\* the text begins, after whitespace, with --- and a second --- follows
has_frontmatter ==
    occurs_at(file_text, <<"-", "-", "-">>, first_text) /\ second_fence_end # -1

\* the start of the markup region that begins after the fence at
\* fence_end: the byte after the next newline, or fence_end without one
markup_region_start(fence_end) ==
    LET newline == find_byte_in(file_text, {"\n"}, fence_end)
    IN  IF newline = -1 THEN fence_end ELSE newline + 1

\* C14: Astro: when the text begins, after whitespace, with --- and a
\* second --- follows, every span returned starts at or after the start of
\* the markup region, the byte after the first newline that follows the
\* second fence (the byte after the fence when no newline follows); when
\* the text does not begin with ---, the markup region is the whole text.
AstroMarkupOnly ==
    (FileFormat_from_path(file_path) = "Astro" /\ spans_returned) =>
        /\ has_frontmatter =>
               spans_within(markup_region_start(second_fence_end), Len(file_text))
        /\ ~occurs_at(file_text, <<"-", "-", "-">>, first_text) =>
               matches = whole_buffer_matches

\* an Astro file with a class string before the end of the frontmatter,
\* which is not returned, and a span in the markup region
AstroMarkupOnlyWitness ==
    /\ FileFormat_from_path(file_path) = "Astro"
    /\ spans_returned
    /\ has_frontmatter
    /\ matches # <<>>
    /\ Len(whole_buffer_matches) > Len(matches)

-----------------------------------------------------------------------------
(* Properties of the comparator (SpecCmp).                                  *)

\* the two tokens have been compared and their text sorted
compared == pc = "compared"

\* the tokens of the sorted text
sorted_tokens == split_whitespace(sorted)

\* C15: a token with important = false sorts before a token with
\* important = true, whatever their buckets, variants, signs, arbitrary
\* flags and bases; in the output of sort_classes every token that begins
\* with ! follows every token that does not.
ImportantLast ==
    compared =>
        LET l == TailwindClass_parse(left)
            r == TailwindClass_parse(right)
        IN  /\ (~l.important /\ r.important) => ordering = "Less"
            /\ (l.important /\ ~r.important) => ordering = "Greater"
            /\ \A i, j \in 1..Len(sorted_tokens) :
                   (i < j /\ starts_with_char(sorted_tokens[i], "!"))
                       => starts_with_char(sorted_tokens[j], "!")

\* an important token of a low bucket without variants is compared with a
\* negative token of the sentinel bucket with variants, and comes second
ImportantLastWitness ==
    /\ compared
    /\ starts_with_char(left, "!")
    /\ ~starts_with_char(right, "!")
    /\ category_priority(TailwindClass_parse(left)) = 300
    /\ category_priority(TailwindClass_parse(right)) = 9999
    /\ TailwindClass_parse(left).variants = <<>>
    /\ Len(TailwindClass_parse(right).variants) = 2
    /\ TailwindClass_parse(right).negative
    /\ ordering = "Greater"
    /\ sorted = right \o <<" ">> \o left

\* the text of s after its last c (s when there is none)
after_last(s, c) ==
    LET at == {i \in 1..Len(s) : s[i] = c}
    IN  IF at = {} THEN s ELSE SubSeq(s, SetMax(at) + 1, Len(s))

\* the text of s before its first c (s when there is none)
before_first(s, c) ==
    LET at == {i \in 1..Len(s) : s[i] = c}
    IN  IF at = {} THEN s ELSE SubSeq(s, 1, SetMin(at) - 1)

\* the text of s without a leading c
without_leading(s, c) == IF starts_with_char(s, c) THEN Tail(s) ELSE s

\* the first dash-delimited segment of the base of a token, read off the
\* text of the token: after the !, after the last colon, after a leading -
utility_prefix(tok) ==
    before_first(
        without_leading(after_last(without_leading(tok, "!"), ":"), "-"), "-")

\* the bucket of the catalogue for a token, 9999 for a prefix not in it
bucket(tok) ==
    IF utility_prefix(tok) \in DOMAIN CategoryTable
    THEN CategoryTable[utility_prefix(tok)] ELSE 9999

\* C16: of two tokens with the same important flag, the one whose utility
\* prefix maps to the lower bucket of the catalogue sorts first, whatever
\* the variants, signs and arbitrary flags; a prefix that is not in the
\* catalogue is in bucket 9999, after every catalogued prefix.
CategoryBucket ==
    compared =>
        /\ (starts_with_char(left, "!") <=> starts_with_char(right, "!")) =>
               /\ bucket(left) < bucket(right) => ordering = "Less"
               /\ bucket(left) > bucket(right) => ordering = "Greater"
        /\ category_priority(TailwindClass_parse(left)) = bucket(left)
        /\ utility_prefix(left) \notin DOMAIN CategoryTable =>
               \A prefix \in DOMAIN CategoryTable : CategoryTable[prefix] < 9999

\* a token of the sentinel bucket without variants comes after a negative
\* arbitrary token of bucket 310 with two variants
CategoryBucketWitness ==
    /\ compared
    /\ ~starts_with_char(left, "!")
    /\ ~starts_with_char(right, "!")
    /\ bucket(left) = 9999
    /\ bucket(right) = 310
    /\ TailwindClass_parse(left).variants = <<>>
    /\ Len(TailwindClass_parse(right).variants) = 2
    /\ TailwindClass_parse(right).negative
    /\ TailwindClass_parse(right).arbitrary
    /\ ordering = "Greater"

\* the fields of a token, read off its text
variants_of(tok) ==
    LET parts == split(without_leading(tok, "!"), ":")
    IN  SubSeq(parts, 1, Len(parts) - 1)
base_part_of(tok) == after_last(without_leading(tok, "!"), ":")
is_negative(tok) == starts_with_char(base_part_of(tok), "-")
base_of(tok) == without_leading(base_part_of(tok), "-")
is_arbitrary(tok) == contains(base_of(tok), "[")

\* a key of the reference order: a number or a string
number_key(n) == [kind |-> "number", number |-> n, string |-> <<>>]
string_key(str) == [kind |-> "string", number |-> 0, string |-> str]
flag_key(flag) == number_key(IF flag THEN 1 ELSE 0)

key_cmp(a, b) ==
    IF a.kind = "number" THEN int_cmp(a.number, b.number)
    ELSE str_cmp(a.string, b.string)

\* the keys of a token within one important flag and one bucket, in order:
\* the number of variants; for each variant its priority, then its name;
\* the sign; the arbitrary flag; the base
reference_keys(tok) ==
    LET variant_list == variants_of(tok)
    IN  <<number_key(Len(variant_list))>>
            \o flatten([i \in 1..Len(variant_list) |->
                   <<number_key(variant_priority(variant_list[i])),
                     string_key(variant_list[i])>>])
            \o <<flag_key(is_negative(tok)), flag_key(is_arbitrary(tok)),
                 string_key(base_of(tok))>>

\* the lexicographic composition: the first key that differs decides
reference_order(ka, kb) ==
    LET differ == {i \in 1..Len(ka) :
                      i <= Len(kb) /\ key_cmp(ka[i], kb[i]) # "Equal"}
    IN  IF differ = {} THEN "Equal"
        ELSE key_cmp(ka[SetMin(differ)], kb[SetMin(differ)])

\* C17: within one important flag and one bucket the comparator is the
\* lexicographic composition of: fewer variants first; the variants
\* pairwise from the left by priority in the variant table, then by name;
\* non-negative before negative; non-arbitrary before arbitrary; the base
\* strings.
KeyComposition ==
    (/\ compared
     /\ starts_with_char(left, "!") <=> starts_with_char(right, "!")
     /\ bucket(left) = bucket(right))
        => ordering = reference_order(reference_keys(left), reference_keys(right))

\* two tokens with equal first variants whose second variants are ordered
\* by priority against the order of their names
KeyCompositionWitness ==
    /\ compared
    /\ starts_with_char(left, "!") <=> starts_with_char(right, "!")
    /\ bucket(left) = bucket(right)
    /\ Len(variants_of(left)) = 2
    /\ Len(variants_of(right)) = 2
    /\ variants_of(left)[1] = variants_of(right)[1]
    /\ variant_priority(variants_of(left)[2]) < variant_priority(variants_of(right)[2])
    /\ str_cmp(variants_of(left)[2], variants_of(right)[2]) = "Greater"
    /\ is_negative(left)
    /\ ~is_negative(right)
    /\ ordering = "Less"

-----------------------------------------------------------------------------
(* Properties of the token parser (SpecToken).                              *)

\* the token has been parsed
parsed == pc = "parsed"

\* the number of c among the first n elements of s
count_in(s, n, c) == Cardinality({i \in 1..n : s[i] = c})

\* the brackets and the parentheses of s are balanced
balanced(s) ==
    /\ \A n \in 1..Len(s) :
           /\ count_in(s, n, "[") >= count_in(s, n, "]")
           /\ count_in(s, n, "(") >= count_in(s, n, ")")
    /\ count_in(s, Len(s), "[") = count_in(s, Len(s), "]")
    /\ count_in(s, Len(s), "(") = count_in(s, Len(s), ")")

\* position i of s is outside every bracket and parenthesis
top_level(s, i) ==
    /\ count_in(s, i, "[") = count_in(s, i, "]")
    /\ count_in(s, i, "(") = count_in(s, i, ")")

\* the segments of s between its top-level colons, from position i on,
\* current being the segment read so far
RECURSIVE top_level_split_from(_, _, _)
top_level_split_from(s, i, current) ==
    IF i > Len(s) THEN <<current>>
    ELSE IF s[i] = ":" /\ top_level(s, i)
         THEN <<current>> \o top_level_split_from(s, i + 1, <<>>)
         ELSE top_level_split_from(s, i + 1, Append(current, s[i]))

top_level_split(s) == top_level_split_from(s, 1, <<>>)

\* C18: the token is split on colons at top level only: a colon inside
\* balanced brackets or parentheses separates nothing; the last top-level
\* segment is the base, the segments before it are the variants in order.
TopLevelSplit ==
    (parsed /\ balanced(token)) =>
        LET segments == top_level_split(without_leading(token, "!"))
            last_segment == segments[Len(segments)]
        IN  /\ tailwind_class.variants = SubSeq(segments, 1, Len(segments) - 1)
            /\ tailwind_class.base = without_leading(last_segment, "-")

\* the text of the variants of the parsed token, each followed by a colon
variants_text ==
    flatten([i \in 1..Len(tailwind_class.variants) |->
                tailwind_class.variants[i] \o <<":">>])

\* C19: for a non-empty token without whitespace the parsed token keeps
\* the token as original; important holds iff the token begins with !;
\* negative holds iff what is left after the ! and the variants begins
\* with -; arbitrary holds iff base contains [; and the token is the
\* concatenation of an optional !, the variants each followed by a colon,
\* an optional - and base.
TokenInvariants ==
    parsed =>
        LET rest == without_leading(token, "!")
            base_segment == SubSeq(rest, Len(variants_text) + 1, Len(rest))
        IN  /\ tailwind_class.original = token
            /\ tailwind_class.important <=> starts_with_char(token, "!")
            /\ SubSeq(rest, 1, Len(variants_text)) = variants_text
            /\ tailwind_class.negative <=> starts_with_char(base_segment, "-")
            /\ tailwind_class.arbitrary <=> contains(tailwind_class.base, "[")
            /\ token = token_text(IF tailwind_class.important THEN <<"!">> ELSE <<>>,
                                  tailwind_class.variants,
                                  IF tailwind_class.negative THEN <<"-">> ELSE <<>>,
                                  tailwind_class.base)

\* an important, negative, arbitrary token with a variant has been parsed
TokenInvariantsWitness ==
    /\ parsed
    /\ tailwind_class.important
    /\ tailwind_class.negative
    /\ tailwind_class.arbitrary
    /\ tailwind_class.variants = << <<"p">> >>
    /\ Len(tailwind_class.base) > 0

-----------------------------------------------------------------------------
(* The form of the output of sort_classes (SpecSort).                       *)

\* the positions of classes where a run of non-whitespace begins
token_starts ==
    {i \in 1..Len(classes) :
        ~is_whitespace(classes[i]) /\ (i = 1 \/ is_whitespace(classes[i - 1]))}

\* the run of non-whitespace of classes that begins at position i
token_at(i) ==
    LET stops == {j \in i..Len(classes) :
                     j = Len(classes) \/ is_whitespace(classes[j + 1])}
    IN  SubSeq(classes, i, SetMin(stops))

\* the pieces of the output between its spaces
output_pieces == split(sorted, " ")

\* C20: for an empty or whitespace-only text the output of sort_classes is
\* empty; otherwise the output is the tokens of the text (its runs of
\* non-whitespace, tabs and newlines being whitespace) joined by exactly
\* one space: no whitespace at either end, no two consecutive spaces.
OutputForm ==
    pc = "resort" =>
        IF token_starts = {} THEN sorted = <<>>
        ELSE /\ Len(output_pieces) = Cardinality(token_starts)
             /\ \A k \in 1..Len(output_pieces) :
                    /\ output_pieces[k] # <<>>
                    /\ \A i \in 1..Len(output_pieces[k]) :
                           ~is_whitespace(output_pieces[k][i])
             /\ \A i \in token_starts :
                    occurrences(output_pieces, token_at(i))
                        = Cardinality({j \in token_starts : token_at(j) = token_at(i)})

\* a text with a leading space and a tab and a space between its two
\* tokens has been sorted, and the tokens have changed places
OutputFormWitness ==
    /\ pc = "resort"
    /\ starts_with_char(classes, " ")
    /\ \E i \in 1..(Len(classes) - 1) :
           classes[i] = "\t" /\ classes[i + 1] = " "
    /\ sorted = <<"m", " ", "p">>

-----------------------------------------------------------------------------
(* Properties of the extractor (SpecExtract).                               *)

\* the elements of a sequence
Range(seq) == {seq[i] : i \in 1..Len(seq)}

\* a byte of an attribute name
is_name_byte(c) ==
    c \in {"a", "c", "d", "l", "m", "s", "t", "e", "w", "n", "N", "C", "-"}

\* the offset of the last = of file_text before offset n (-1: none)
last_equals_before(n) ==
    LET at == {i \in 0..(n - 1) : file_text[i + 1] = "="}
    IN  IF at = {} THEN -1 ELSE SetMax(at)

\* the attribute name that ends at offset eq: the longest run of name
\* bytes before it
name_ending_at(eq) ==
    LET stops == {i \in 0..(eq - 1) : ~is_name_byte(file_text[i + 1])}
        from == IF stops = {} THEN 0 ELSE SetMax(stops) + 1
    IN  slice(file_text, from, eq)

\* the name of the attribute whose value holds the span
attribute_name_of(span) == name_ending_at(last_equals_before(span.start))

\* C21: extract_from_attributes returns a span only for an attribute whose
\* name is a configured attribute name, exactly and with the same case: an
\* attribute whose name only ends with a configured name, as data-class
\* does, yields no span; with no attribute names configured nothing is
\* returned.
ExactAttributeName ==
    pc = "attributes" =>
        /\ tailwind_attributes = <<>> => matches = <<>>
        /\ \A i \in 1..Len(matches) :
               /\ last_equals_before(matches[i].start) # -1
               /\ attribute_name_of(matches[i]) \in Range(tailwind_attributes)

\* one of the three extractions has returned
extracted == pc \in {"attributes", "functions", "all"}

\* C22: no span returned by the extractor has empty or whitespace-only
\* content, whether it comes from the quoted attribute form, from a string
\* literal of the braced form or from a string literal of function
\* arguments: its end is after its start and sort_classes of its content
\* is not empty.
NoBlankSpan ==
    extracted =>
        \A i \in 1..Len(matches) :
            /\ matches[i].end > matches[i].start
            /\ sort_classes(matches[i].content) # <<>>

\* the quote bytes of a string literal
is_quote(c) == c \in {"\"", "'", "60"}

\* the string literals of file_text between offsets from and to, read
\* from the left: a literal opens at a quote byte and closes at the next
\* occurrence of the same byte; each is [start, end), its content
RECURSIVE literals_between(_, _)
literals_between(from, to) ==
    IF from >= to THEN <<>>
    ELSE IF ~is_quote(file_text[from + 1]) THEN literals_between(from + 1, to)
    ELSE LET closes == {j \in (from + 1)..(to - 1) :
                           file_text[j + 1] = file_text[from + 1]}
         IN  IF closes = {} THEN literals_between(from + 1, to)
             ELSE <<[start |-> from + 1, end |-> SetMin(closes)]>>
                      \o literals_between(SetMin(closes) + 1, to)

\* the offset after NAME( when a call of the configured function NAME
\* stands at offset i of file_text, with optional whitespace before the (
call_args_at(i) ==
    LET named == {n \in 1..Len(tailwind_functions) :
                     occurs_at(file_text, tailwind_functions[n], i)}
        paren == IF named = {} THEN -1
                 ELSE skip_whitespace(file_text,
                          i + Len(tailwind_functions[SetMin(named)]))
    IN  IF paren # -1 /\ occurs_at(file_text, <<"(">>, paren) THEN paren + 1
        ELSE -1

\* the literals in the arguments of the calls of configured functions,
\* the arguments of a call ending at the next )
argument_literals ==
    LET calls == {i \in 0..Len(file_text) :
                     /\ call_args_at(i) # -1
                     /\ find_byte_in(file_text, {")"}, call_args_at(i)) # -1}
    IN  UNION { Range(literals_between(
                          call_args_at(i),
                          find_byte_in(file_text, {")"}, call_args_at(i)))) :
                  i \in calls }

literal_content(literal) == slice(file_text, literal.start, literal.end)

\* the spans returned, as [start, end)
returned_spans ==
    {[start |-> matches[i].start, end |-> matches[i].end] : i \in 1..Len(matches)}

\* C23: extract_from_functions skips interpolated literals: a quoted
\* literal in the arguments of a call of a configured function is never
\* returned when its content contains $, and is returned when its content
\* is non-empty and has no $; a function name that is not configured
\* yields no span.
InterpolatedSkipped ==
    pc = "functions" =>
        /\ \A i \in 1..Len(matches) : ~contains(matches[i].content, "$")
        /\ \A literal \in argument_literals :
               IF contains(literal_content(literal), "$")
               THEN literal \notin returned_spans
               ELSE literal.end > literal.start => literal \in returned_spans
        /\ argument_literals = {} => matches = <<>>

\* C24: extract_all returns the union of the attribute spans and the
\* function spans, ordered by non-decreasing start, and no two of its
\* entries have the same start and the same end: a literal found through
\* a braced attribute and through the call inside it is returned once.
ExtractAllUnique ==
    pc = "all" =>
        LET self == ClassExtractor_new(tailwind_functions, tailwind_attributes)
        IN  /\ Range(matches) = Range(extract_from_attributes(self, file_text))
                                    \cup Range(extract_from_functions(self, file_text))
            /\ \A i, j \in 1..Len(matches) :
                   i < j =>
                       /\ matches[i].start <= matches[j].start
                       /\ ~(/\ matches[i].start = matches[j].start
                            /\ matches[i].end = matches[j].end)

-----------------------------------------------------------------------------
(* Properties of a handler that answers several requests (SpecServe).       *)

\* C25: identical bytes, path and configuration give an identical answer:
\* format keeps no state between calls, so the answer to a request is the
\* same whatever the handler answered before it.
Deterministic ==
    pc = "done" =>
        \A i \in 1..Len(served) :
            served[i].file_bytes = file_bytes => served[i].answer = Answer

\* the first request has been answered again after another request that
\* changed its file by another length, and the answer is a changed file
DeterministicWitness ==
    /\ pc = "done"
    /\ pass = 3
    /\ served[2].file_bytes # file_bytes
    /\ served[2].answer.outcome = "Ok(Some)"
    /\ Len(served[2].answer.bytes) # Len(served[2].file_bytes)
    /\ outcome = "Ok(Some)"
    /\ served[1].answer = Answer

-----------------------------------------------------------------------------
(* Properties of the order of the tokens (SpecOrder).                       *)

\* the tokens of classes
input_tokens == split_whitespace(classes)

\* the parsed tokens of classes, each with its position in classes
positioned_tokens ==
    [i \in 1..Len(input_tokens) |->
        [field \in {"original", "important", "variants", "base", "negative",
                    "arbitrary", "position"} |->
            IF field = "position" THEN i
            ELSE TailwindClass_parse(input_tokens[i])[field]]]

\* the originals of a sequence of parsed tokens, joined by spaces
originals_joined(parsed_tokens) ==
    join([i \in 1..Len(parsed_tokens) |-> parsed_tokens[i].original], <<" ">>)

\* in `ordered`, tokens that compare Equal stand in the order of their
\* positions in classes
equal_keys_in_order(ordered) ==
    \A a, b \in 1..Len(ordered) :
        (a < b /\ cmp(ordered[a], ordered[b]) = "Equal")
            => ordered[a].position < ordered[b].position

\* the output is the sort of the positioned tokens, and `ordered` is it
stable_as(ordered) ==
    /\ sorted = originals_joined(ordered)
    /\ equal_keys_in_order(ordered)

\* C26: the sort is stable: two tokens of one text whose sort keys are
\* equal appear in the output of sort_classes in their original order from
\* left to right.
StableSort == pc = "resort" => stable_as(sort(positioned_tokens))

\* a text in which a token occurs twice, with another token between the
\* two that sorts before them, has been sorted
StableSortWitness ==
    /\ pc = "resort"
    /\ Len(input_tokens) = 3
    /\ input_tokens[1] = input_tokens[3]
    /\ cmp(TailwindClass_parse(input_tokens[2]),
           TailwindClass_parse(input_tokens[1])) = "Less"
    /\ sorted = join(<<input_tokens[2], input_tokens[1], input_tokens[3]>>, <<" ">>)

-----------------------------------------------------------------------------
(* The order of the replacements of format (Spec).                          *)

\* format is about to replace the span matches[idx]
replacing == pc = "loop" /\ idx <= Len(matches)

\* the sum of the changes of length of the spans before matches[i]
RECURSIVE delta_before(_)
delta_before(i) ==
    IF i <= 1 THEN 0 ELSE delta_before(i - 1) + length_change(i - 1)

\* the spans processed before matches[idx] all start before it
earlier_start_before ==
    \A j \in 1..(idx - 1) : matches[j].start < matches[idx].start

\* start + offset and end + offset address the bytes of matches[idx] in
\* the working buffer
addresses_span ==
    /\ 0 <= matches[idx].start + offset
    /\ matches[idx].end + offset <= Len(result)
    /\ slice(result, matches[idx].start + offset, matches[idx].end + offset)
           = matches[idx].content

\* C27: the driver applies the replacements in increasing order of span
\* start: when a span is replaced, offset is the sum of the changes of
\* length of exactly the spans already processed, all of them start before
\* it in the original buffer, and start + offset and end + offset address
\* the bytes of the span in the working buffer.
OrderedReplacement ==
    replacing =>
        /\ offset = delta_before(idx)
        /\ earlier_start_before
        /\ addresses_span

-----------------------------------------------------------------------------
(* The quotes around the returned spans (SpecExtract).                      *)

\* the byte before the span and the byte after it are one and the same
\* quote character
same_quote_around(span) ==
    /\ span.start >= 1
    /\ span.end < Len(file_text)
    /\ is_quote(file_text[span.start])
    /\ file_text[span.end + 1] = file_text[span.start]

\* C28: matching quotes: every span returned from the quoted attribute
\* form, and every string literal extracted from a brace body or from
\* function arguments, has the same quote character on both sides; a
\* value opened with one quote character and closed by another is not
\* returned.
MatchingQuotes ==
    extracted => \A i \in 1..Len(matches) : same_quote_around(matches[i])

-----------------------------------------------------------------------------
(* The comparator as an order on the tokens of a text (SpecOrder).          *)

\* the parsed tokens of classes
parsed_tokens ==
    [i \in 1..Len(input_tokens) |-> TailwindClass_parse(input_tokens[i])]

\* Equal exactly between tokens with the same original string
equal_iff_identical ==
    \A a, b \in Range(parsed_tokens) :
        cmp(a, b) = "Equal" <=> a.original = b.original

\* cmp(b, a) is the reverse of cmp(a, b)
antisymmetric ==
    \A a, b \in Range(parsed_tokens) :
        /\ cmp(a, b) \in {"Less", "Equal", "Greater"}
        /\ cmp(a, b) = "Less" <=> cmp(b, a) = "Greater"
        /\ cmp(a, b) = "Equal" <=> cmp(b, a) = "Equal"

\* Less and Equal compose
transitive ==
    \A a, b, c \in Range(parsed_tokens) :
        /\ (cmp(a, b) = "Less" /\ cmp(b, c) # "Greater") => cmp(a, c) = "Less"
        /\ (cmp(a, b) # "Greater" /\ cmp(b, c) = "Less") => cmp(a, c) = "Less"
        /\ (cmp(a, b) = "Equal" /\ cmp(b, c) = "Equal") => cmp(a, c) = "Equal"

\* the tokens of classes in the order given by the permutation order
reordered(order) ==
    join([i \in 1..Len(input_tokens) |-> input_tokens[order[i]]], <<" ">>)

\* every reordering of the tokens of classes has the same output
order_independent ==
    \A order \in Permutations(1..Len(input_tokens)) :
        sort_classes(reordered(order)) = sorted

\* C29: two parsed tokens compare Equal if and only if their original
\* strings are identical, the comparator is a total order (antisymmetric,
\* transitive, total) on parsed tokens, and sort_classes returns the same
\* output for every permutation of the same tokens.
TotalOrder ==
    pc = "resort" =>
        /\ equal_iff_identical
        /\ antisymmetric
        /\ transitive
        /\ order_independent

\* a text of three tokens has been sorted, two of them identical and the
\* third differing from them in a variant of the same priority only, and
\* the sort has moved a token
TotalOrderWitness ==
    /\ pc = "resort"
    /\ Len(input_tokens) = 3
    /\ input_tokens[1] = input_tokens[3]
    /\ input_tokens[1] # input_tokens[2]
    /\ parsed_tokens[1].base = parsed_tokens[2].base
    /\ Len(parsed_tokens[1].variants) = 1
    /\ Len(parsed_tokens[2].variants) = 1
    /\ variant_priority(parsed_tokens[1].variants[1])
           = variant_priority(parsed_tokens[2].variants[1])
    /\ sorted # classes

-----------------------------------------------------------------------------
(* The offset arithmetic of format (Spec).                                  *)

\* format is about to compute start and end for matches[idx]: the sorted
\* content differs from the content (lib.rs 116-118)
shifting == replacing /\ sort_classes(matches[idx].content) # matches[idx].content

\* the two sums of lib.rs 117-118 for matches[idx], as i32
shifted_start == as_i32(matches[idx].start) + offset
shifted_end == as_i32(matches[idx].end) + offset

\* the casts to usize keep the values of the two sums
casts_keep ==
    /\ usize_below_2_31(as_usize(shifted_start))
    /\ usize_to_int(as_usize(shifted_start)) = shifted_start
    /\ usize_below_2_31(as_usize(shifted_end))
    /\ usize_to_int(as_usize(shifted_end)) = shifted_end

\* C30: the i32 offset arithmetic of the driver stays in range: for every
\* span the replacement loop shifts, start + offset and end + offset are
\* not negative, start + offset <= end + offset <= the length of the
\* working buffer, and no cast between usize and i32 changes a value,
\* whatever the order of the spans and the earlier changes of length.
OffsetInRange ==
    shifting =>
        /\ 0 <= shifted_start
        /\ shifted_start <= shifted_end
        /\ shifted_end <= Len(result)
        /\ casts_keep

=============================================================================
